---- MODULE Spec2Model ----
(***************************************************************************)
(* Model of the horse-app scoring pipeline (services/evaluator.py,         *)
(* services/market.py, services/video_features.py,                         *)
(* services/image_features.py).                                            *)
(*                                                                         *)
(* Numbers.  The code computes in binary floating point; the model         *)
(* computes the same expressions in exact decimal arithmetic on scaled     *)
(* integers.  Every quantity carries its unit in a comment:                *)
(*   measurement      tenths of kg / cm     (380 kg -> 3800)               *)
(*   index            hundredths            (50.0  -> 5000)                *)
(*   trait            whole points          (the code rounds to integers)  *)
(*   shortness        1/1200                (1.0   -> 1200)                *)
(*   alpha            1/5,000,000 inside, thousandths when returned        *)
(*   turfiness        millionths inside, thousandths when returned         *)
(*   Ability          hundredths            (48.82 -> 4882)                *)
(*   money field      thousand yen          (2,000,000 -> 2000)            *)
(*   market result    yen                                                  *)
(*   frame difference hundredths (mean and variance of the diffs)          *)
(* round() is Python's round: half to even.                                *)
(*                                                                         *)
(* Accounts.  The quota and bank-transfer routes (app.py, models.py,       *)
(* services/bank_payments.py) act on one user's row, the Evaluation and    *)
(* PaymentRequest tables and the UTC clock.  A month key "YYYY-MM" is the  *)
(* pair <<year, month>> (the format is one-to-one), the empty key "" is    *)
(* <<>>; created_at order of payment requests is their order in the table. *)
(*                                                                         *)
(* Text.  Japanese sire names, notes and the sex characters are written    *)
(* as ASCII tags; the comment at each tag gives the source text's place.   *)
(***************************************************************************)
EXTENDS Integers, Sequences, FiniteSets, TLC

VARIABLES
    pc,             \* position of the call being executed
    \* ---- inputs of a request (app.py index, lines 197-234)
    payload,        \* form fields read by evaluate_horse and estimate_market
    side_photo_rel, \* "" (None) or the relative path of the side photo
    photo_file,     \* what image_body_feature finds at that path
    video_rel,      \* "" (None) or the relative path of the video
    market_inputs,  \* the four market form fields
    db,             \* _load_db(): the sire -> median table (thousand yen)
    \* ---- evaluate_horse locals and result
    indices,        \* the seven intermediate indices (hundredths)
    used_measure,   \* number of measurement fields > 0
    notes,          \* notes.body / photo / video / pedigree
    distance_m,     \* distance in metres handed to the formulas
    traits,         \* result of _derive_traits
    ability_pack,   \* result of _ability_from_traits
    rank,           \* result of _rank_from_ability
    stars,          \* result of _stars_from_ability (a sequence of 5 glyphs)
    comments,       \* result of _comment_blocks: pattern and appended clauses
    conf,           \* the returned confidence (hundredths)
    \* ---- video_motion_features locals and result
    path_exists,    \* p.exists()
    cap_opened,     \* cap.isOpened()
    frame_count,    \* int(cap.get(CAP_PROP_FRAME_COUNT) or 0)
    samples,        \* number of frame positions sampled by the OpenCV strategy
    pos,            \* number of sampled positions already visited
    prev,           \* TRUE when prev is not None
    diffs,          \* len(diffs) of the OpenCV strategy
    iio,            \* FALSE when "import imageio.v3" failed (iio is None)
    frames,         \* len(frames): the imageio frame buffer
    io_samples,     \* number of buffered frames sampled by the imageio strategy
    io_diffs,       \* len(diffs) of the imageio strategy
    producer,       \* which code path built vf: "none", "missing", "cv", "imageio"
    failure,        \* why a neutral result was returned, "" when none was
    vf,             \* the dict returned by video_motion_features
    \* ---- estimate_market outcome: the returned bounds, or the error raised
    market,
    \* ---- history of calls (not program state)
    call,           \* the function being (or last) executed
    earlier,        \* arguments and result of an earlier finished call
    \* ---- account state (models.py User, Evaluation, PaymentRequest)
    user,           \* the committed users row: plan and the three quota columns
    now,            \* datetime.utcnow(), to the month: [year, month]
    session,        \* per web request in flight: its position and its loaded User
    evaluations,    \* committed Evaluation rows, counted by <<plan, month key>>
    payment_requests, \* committed PaymentRequest rows in created_at order
    response        \* what the last checkout call was given and returned

inputVars == <<payload, side_photo_rel, photo_file, video_rel, market_inputs, db, iio>>
evalVars == <<indices, used_measure, notes, distance_m, traits, ability_pack, rank, stars>>
videoVars ==
    <<path_exists, cap_opened, frame_count, samples, pos, prev, diffs, frames,
      io_samples, io_diffs, producer, failure, vf>>
reportVars == <<comments, conf>>
callVars == <<call, earlier>>
acctVars == <<user, now, session, evaluations, payment_requests, response>>
vars == <<pc, inputVars, evalVars, reportVars, videoVars, market, callVars, acctVars>>

----------------------------------------------------------------------------
(* Arithmetic helpers *)

Max(a, b) == IF a >= b THEN a ELSE b
Min(a, b) == IF a <= b THEN a ELSE b

\* evaluator.py _clamp: max(lo, min(hi, x))
_clamp(x, lo, hi) == Max(lo, Min(hi, x))

\* Python round() of the rational n/d (d > 0): nearest integer, ties to even.
RoundHalfEven(n, d) ==
    LET q == n \div d
        r == n % d
    IN  IF 2 * r < d THEN q
        ELSE IF 2 * r > d THEN q + 1
        ELSE IF q % 2 = 0 THEN q ELSE q + 1

\* math.exp based sigmoid of 0.085 * diff, in millionths, for diff >= 0
\* (entry diff + 1); values of 1/(1+exp(-0.085*diff)) rounded to 6 decimals.
SigmoidTable ==
    << 500000, 521237, 542398, 563407, 584191, 604679, 624806, 644512, 663739, 682438, 700567,
       718089, 734973, 751196, 766741, 781597, 795760, 809228, 822006, 834104, 845535, 856313,
       866458, 875991, 884933, 893309, 901144, 908462, 915289, 921651, 927574, 933080, 938197,
       942945, 947350, 951432, 955212, 958711, 961948, 964940, 967705, 970258, 972615, 974790,
       976797, 978647, 980353, 981925, 983374, 984708, 985936, 987068, 988109, 989067, 989949,
       990761, 991507, 992194, 992825, 993406, 993940, 994431, 994883, 995298, 995679, 996030,
       996352, 996649, 996921, 997171, 997401, 997612, 997806, 997985, 998149, 998299, 998438,
       998565, 998682, 998789, 998887, 998978, 999061, 999138, 999208, 999272, 999332, 999386,
       999436, 999482, 999524, 999563, 999599, 999631, 999661, 999689, 999714, 999738, 999759,
       999779, 999797 >>

\* evaluator.py _sigmoid applied to k*(speed - power), k = 0.085; millionths.
\* sigmoid(-x) = 1 - sigmoid(x).
_sigmoid(diff) ==
    LET a == Min(IF diff >= 0 THEN diff ELSE -diff, Len(SigmoidTable) - 1)
    IN  IF diff >= 0 THEN SigmoidTable[a + 1] ELSE 1000000 - SigmoidTable[a + 1]

----------------------------------------------------------------------------
(* evaluator.py: rank and stars *)

\* Mutant of _rank_from_ability: strict comparisons.
RankStrict(ability) ==
    IF ability > 8200 THEN "A"
    ELSE IF ability > 7200 THEN "B"
    ELSE IF ability > 6200 THEN "C"
    ELSE "D"

_rank_from_ability(ability) ==
    IF ability >= 8200 THEN "A"
    ELSE IF ability >= 7200 THEN "B"
    ELSE IF ability >= 6200 THEN "C"
    ELSE "D"

\* filled star * n + empty star * (5 - n)
StarGlyphs(n) == [i \in 1..n |-> "filled"] \o [i \in 1..(5 - n) |-> "empty"]

_stars_from_ability(ability) ==
    LET n == IF ability >= 8500 THEN 5
             ELSE IF ability >= 7800 THEN 4
             ELSE IF ability >= 7000 THEN 3
             ELSE IF ability >= 6200 THEN 2
             ELSE 1
    IN  StarGlyphs(n)

----------------------------------------------------------------------------
(* evaluator.py: distance bucket *)

\* d = float(distance_m or 0.0); if d <= 0: d = 1600.0
EffectiveDistance(d) == IF d <= 0 THEN 1600 ELSE d

\* shortness = _clamp((2.2 - d_km) / 1.2, 0, 1), in 1/1200
Shortness(d) == _clamp(2200 - EffectiveDistance(d), 0, 1200)

Bucket(d) ==
    IF EffectiveDistance(d) <= 1400 THEN "Sprint"
    ELSE IF EffectiveDistance(d) <= 2000 THEN "Mile"
    ELSE "Stayer"

_distance_bucket(d) == [bucket |-> Bucket(d), shortness |-> Shortness(d)]

----------------------------------------------------------------------------
(* evaluator.py: _derive_traits.  ix is the record of indices. *)

\* units 1/10^4
BaseSpeed(ix) == _clamp(60 * ix.speed + 15 * ix.pedigree + 25 * ix.motion, 350000, 900000)
BasePower(ix) == _clamp(55 * ix.body + 25 * ix.photo + 20 * ix.pedigree, 350000, 900000)

\* units 1/30000: (1 - shortness) * 8 = (1200 - Shortness) / 150
BaseStamina(ix, d) ==
    _clamp(3 * (40 * ix.motion + 35 * ix.body + 25 * ix.pedigree)
             + (1200 - Shortness(d)) * 200,
           35 * 30000, 90 * 30000)

\* units 1/10^4
BaseDurability(ix) ==
    _clamp(45 * ix.photo + 35 * ix.body + 20 * ix.stability, 350000, 900000)

\* units 1/10^6; dur is the unrounded, un-nudged durability (1/10^4)
BaseRisk(ix, dur) ==
    _clamp(100000000 - (65 * ix.stability * 100 + 35 * dur), 10000000, 80000000)

\* units 1/10^6; spd is the unrounded, un-nudged speed (1/10^4)
BaseAcceleration(ix, spd) ==
    _clamp(55 * ix.accel * 100 + 30 * spd + 15 * ix.motion * 100, 35000000, 90000000)

\* units 1/10^7; dur in 1/10^4, rsk in 1/10^6
BaseStability(ix, dur, rsk) ==
    _clamp(7 * ix.stability * 10000 + 2 * dur * 100 + (100000000 - rsk),
           350000000, 900000000)

\* Mutant of Nudge: the bumped value is not clamped again.
NudgeNoReclamp(x, delta, unit) == x + delta * unit

\* speed = _clamp(speed + 2.0, 35, 90) and its three siblings; x in 1/unit
Nudge(x, delta, unit) == _clamp(x + delta * unit, 35 * unit, 90 * unit)

\* Mutant of _derive_traits: the bucket nudges are applied as soon as Speed
\* and Durability exist, before Risk, Acceleration and Stability are computed.
DeriveTraitsNudgeFirst(ix, d) ==
    LET bucket       == Bucket(d)
        speed        == IF bucket = "Sprint" THEN Nudge(BaseSpeed(ix), 2, 10000)
                        ELSE BaseSpeed(ix)
        power        == BasePower(ix)
        stamina      == IF bucket = "Stayer" THEN Nudge(BaseStamina(ix, d), 2, 30000)
                        ELSE BaseStamina(ix, d)
        durability   == IF bucket = "Stayer" THEN Nudge(BaseDurability(ix), 1, 10000)
                        ELSE BaseDurability(ix)
        risk         == BaseRisk(ix, durability)
        acceleration == IF bucket = "Sprint"
                        THEN Nudge(BaseAcceleration(ix, speed), 2, 1000000)
                        ELSE BaseAcceleration(ix, speed)
        stability    == BaseStability(ix, durability, risk)
    IN  [ Speed        |-> RoundHalfEven(speed, 10000),
          Power        |-> RoundHalfEven(power, 10000),
          Stamina      |-> RoundHalfEven(stamina, 30000),
          Durability   |-> RoundHalfEven(durability, 10000),
          Risk         |-> RoundHalfEven(risk, 1000000),
          Acceleration |-> RoundHalfEven(acceleration, 1000000),
          Stability    |-> RoundHalfEven(stability, 10000000) ]

_derive_traits(ix, d) ==
    LET bucket       == Bucket(d)
        speed        == BaseSpeed(ix)
        power        == BasePower(ix)
        stamina      == BaseStamina(ix, d)
        durability   == BaseDurability(ix)
        risk         == BaseRisk(ix, durability)
        acceleration == BaseAcceleration(ix, speed)
        stability    == BaseStability(ix, durability, risk)
        speed2        == IF bucket = "Sprint" THEN Nudge(speed, 2, 10000) ELSE speed
        acceleration2 == IF bucket = "Sprint" THEN Nudge(acceleration, 2, 1000000)
                         ELSE acceleration
        stamina2      == IF bucket = "Stayer" THEN Nudge(stamina, 2, 30000) ELSE stamina
        durability2   == IF bucket = "Stayer" THEN Nudge(durability, 1, 10000)
                         ELSE durability
    IN  [ Speed        |-> RoundHalfEven(speed2, 10000),
          Power        |-> RoundHalfEven(power, 10000),
          Stamina      |-> RoundHalfEven(stamina2, 30000),
          Durability   |-> RoundHalfEven(durability2, 10000),
          Risk         |-> RoundHalfEven(risk, 1000000),
          Acceleration |-> RoundHalfEven(acceleration2, 1000000),
          Stability    |-> RoundHalfEven(stability, 10000000) ]

----------------------------------------------------------------------------
(* evaluator.py: _ability_from_traits (the locked formula).  tr is a trait   *)
(* record in whole points, d the distance in metres.                        *)

\* turfiness = _sigmoid(k * (speed - power)), millionths
Turfiness(tr) == _sigmoid(tr.Speed - tr.Power)

\* Mutant of Alpha: the blend weight is not clamped.
AlphaNoClamp(tr, d) == 1750000 + 1875 * Shortness(d) + (Turfiness(tr) - 500000)

\* alpha = _clamp(0.35 + 0.45*shortness + 0.10*(turfiness - 0.5)*2.0, 0.30, 0.90)
\* in 1/5,000,000
Alpha(tr, d) ==
    _clamp(1750000 + 1875 * Shortness(d) + (Turfiness(tr) - 500000), 1500000, 4500000)

\* speed_star = 0.75*speed + 0.25*accel, in quarters
SpeedStar(tr) == 3 * tr.Speed + tr.Acceleration

\* risk_star = 0.70*risk + 0.30*(100 - stability), in tenths
RiskStar(tr) == 7 * tr.Risk + 3 * (100 - tr.Stability)

\* Mutant of RawAbility: the risk term is added instead of subtracted.
RawAbilityRiskAdded(tr, d) ==
    _clamp(Alpha(tr, d) * SpeedStar(tr)
             + 360000 * RiskStar(tr)
             + (5000000 - Alpha(tr, d)) * 4 * tr.Stamina
             + 2000000 * tr.Durability,
           1 * 20000000, 99 * 20000000)

\* ability = alpha*speed_star + (1-alpha)*stamina + 0.10*durability - 0.18*risk_star
\* clamped to [1, 99]; in 1/20,000,000
RawAbility(tr, d) ==
    _clamp(Alpha(tr, d) * SpeedStar(tr)
             - 360000 * RiskStar(tr)
             + (5000000 - Alpha(tr, d)) * 4 * tr.Stamina
             + 2000000 * tr.Durability,
           1 * 20000000, 99 * 20000000)

_ability_from_traits(tr, d) ==
    [ Ability    |-> RoundHalfEven(RawAbility(tr, d), 200000),   \* round(ability, 2)
      alpha      |-> RoundHalfEven(Alpha(tr, d), 5000),          \* round(alpha, 3)
      turfiness  |-> RoundHalfEven(Turfiness(tr), 1000),         \* round(turfiness, 3)
      speed_star |-> 25 * SpeedStar(tr),                         \* hundredths
      risk_star  |-> 10 * RiskStar(tr) ]                         \* hundredths

----------------------------------------------------------------------------
(* Form fields.  A numeric form field is text: missing (None), blank,      *)
(* text that float() rejects, a number, or the text "nan", which float()   *)
(* accepts and turns into a NaN.  NaNText is drawn for the market fields;  *)
(* the measurement fields are drawn from the other four shapes.            *)

Absent == [k |-> "none", v |-> 0]
Blank == [k |-> "blank", v |-> 0]
Malformed == [k |-> "bad", v |-> 0]
Num(n) == [k |-> "num", v |-> n]
NaNText == [k |-> "nan", v |-> 0]

\* evaluator.py _as_float(v, default)
_as_float(f, default) == IF f.k = "num" THEN f.v ELSE default

\* utils.py safe_float(v): ok = FALSE stands for None, nan = TRUE for a NaN
safe_float(f) ==
    IF f.k = "num" THEN [ok |-> TRUE, nan |-> FALSE, v |-> f.v]
    ELSE IF f.k = "nan" THEN [ok |-> TRUE, nan |-> TRUE, v |-> 0]
    ELSE [ok |-> FALSE, nan |-> FALSE, v |-> 0]

\* safe_float(v) or 0.0
SafeFloatOrZero(f) == IF safe_float(f).ok THEN safe_float(f).v ELSE 0

----------------------------------------------------------------------------
(* evaluator.py evaluate_horse: body index from the measurements            *)
(* (tenths of kg / cm).                                                     *)

\* Mutant of Present: a negative measurement counts as entered.
PresentNonZero(x) == x # 0

\* if bw > 0: used_measure += 1  (and the same test in each term)
Present(x) == x > 0

\* Mutant of UsedMeasure: the counter is not reset at the start of the call.
UsedMeasureCarried(bw, height, girth, cannon) ==
    used_measure
      + (IF Present(bw) THEN 1 ELSE 0) + (IF Present(height) THEN 1 ELSE 0)
      + (IF Present(girth) THEN 1 ELSE 0) + (IF Present(cannon) THEN 1 ELSE 0)

\* used_measure = 0, then += 1 for each field > 0 (lines 281-289)
UsedMeasure(bw, height, girth, cannon) ==
    (IF Present(bw) THEN 1 ELSE 0) + (IF Present(height) THEN 1 ELSE 0)
      + (IF Present(girth) THEN 1 ELSE 0) + (IF Present(cannon) THEN 1 ELSE 0)

\* Mutant of BwScore: a missing weight is rescaled like an entered one.
BwScoreZeroAsReal(bw) == _clamp((bw - 3800) + 1000, 700, 1800)

\* _clamp((bw - 380.0) / 2.0 + 50.0, 35, 90) if bw > 0 else 50.0; in 1/20
BwScore(bw) == IF Present(bw) THEN _clamp((bw - 3800) + 1000, 700, 1800) ELSE 1000
\* _clamp((height - 150.0) * 2.0 + 50.0, 35, 90) if height > 0 else 50.0; in 1/10
HtScore(height) == IF Present(height) THEN _clamp(2 * (height - 1500) + 500, 350, 900) ELSE 500
\* _clamp((girth - 170.0) * 1.5 + 50.0, 35, 90) if girth > 0 else 50.0; in 1/20
GiScore(girth) == IF Present(girth) THEN _clamp(3 * (girth - 1700) + 1000, 700, 1800) ELSE 1000
\* _clamp((cannon - 19.0) * 6.0 + 50.0, 35, 90) if cannon > 0 else 50.0; in 1/10
CaScore(cannon) == IF Present(cannon) THEN _clamp(6 * (cannon - 190) + 500, 350, 900) ELSE 500

\* round(0.45*bw_s + 0.20*ht_s + 0.20*gi_s + 0.15*ca_s, 2); the sum in 1/2000.
\* The code rounds a binary float: where the exact sum lies on a half of the
\* last digit (x.xx5) it may round either way; the measurement values drawn
\* in EvalPayloads and FullPayloads give sums off such ties.
WeightedBody(bw, height, girth, cannon) ==
    RoundHalfEven(45 * BwScore(bw) + 40 * HtScore(height)
                    + 20 * GiScore(girth) + 30 * CaScore(cannon), 20)

\* body_index and body_note (lines 279-298).  Notes:
\*   "body_defaulted" = line 280, "body_measured" = line 298
BodyIndex(bw, height, girth, cannon) ==
    IF UsedMeasure(bw, height, girth, cannon) # 0
    THEN [index |-> WeightedBody(bw, height, girth, cannon), note |-> "body_measured"]
    ELSE [index |-> 5000, note |-> "body_defaulted"]

----------------------------------------------------------------------------
(* image_features.py image_body_feature.  The decoded picture is reduced   *)
(* to the three measurements the score is computed from: sharp (variance   *)
(* of the Laplacian, whole units), fg (edge pixel share, thousandths) and  *)
(* ar (width / height, hundredths).                                        *)

Abs(x) == IF x >= 0 THEN x ELSE -x

\* min(100, max(0, (sharp / 200) * 100)); hundredths
SharpScore(sharp) == Min(10000, Max(0, 50 * sharp))
\* 100 - min(60, abs(fg - 0.08) * 600); hundredths
FgScore(fg) == 10000 - Min(6000, 60 * Abs(fg - 80))
\* 100 - min(50, abs(ar - 1.6) * 35); hundredths
ArScore(ar) == 10000 - Min(5000, 35 * Abs(ar - 160))

\* score and note_ja.  Notes: "photo_load_failed" = lines 16 and 20,
\* "photo_applied" = line 41.  score in whole points.
image_body_feature(file) ==
    IF file.kind \in {"missing", "unreadable"}
    THEN [score |-> 50, note_ja |-> "photo_load_failed"]
    ELSE [score |-> RoundHalfEven(
                        Max(350000, Min(900000,
                            45 * SharpScore(file.sharp) + 35 * FgScore(file.fg)
                              + 20 * ArScore(file.ar))),
                        10000),
          note_ja |-> "photo_applied"]

\* photo_index and photo_note (evaluator.py lines 301-306);
\* "photo_defaulted" = line 302
PhotoIndex(rel, file) ==
    IF rel # ""
    THEN [index |-> 100 * image_body_feature(file).score,
          note |-> image_body_feature(file).note_ja]
    ELSE [index |-> 5000, note |-> "photo_defaulted"]

----------------------------------------------------------------------------
(* evaluator.py evaluate_horse: pedigree prior (lines 322-336).            *)
(* "Speightstown_ja", "Eskendereya_ja", "SouthVigorous_ja" and             *)
(* "AsiaExpress_ja" stand for the katakana names of lines 328-329.         *)

speed_hints == {"Speightstown", "Speightstown_ja", "Eskendereya_ja", "Eskendereya"}
power_hints == {"SouthVigorous_ja", "South Vigorous", "AsiaExpress_ja", "Asia Express"}

\* Mutant of PedigreeIndex: the two hint sets are swapped.
PedigreeIndexSwapped(sire, damsire) ==
    LET a == 5000 + (IF sire \in power_hints THEN 600 ELSE 0)
        b == a + (IF damsire \in speed_hints THEN 400 ELSE 0)
    IN  [index |-> _clamp(b, 4000, 7500),
         note |-> IF damsire \in speed_hints THEN "ped_damsire_power"
                  ELSE IF sire \in power_hints THEN "ped_sire_speed"
                  ELSE "ped_prior"]

\* Notes: "ped_prior" = line 326, "ped_sire_speed" = line 332,
\* "ped_damsire_power" = line 335
PedigreeIndex(sire, damsire) ==
    LET a == 5000 + (IF sire \in speed_hints THEN 600 ELSE 0)
        b == a + (IF damsire \in power_hints THEN 400 ELSE 0)
    IN  [index |-> _clamp(b, 4000, 7500),
         note |-> IF damsire \in power_hints THEN "ped_damsire_power"
                  ELSE IF sire \in speed_hints THEN "ped_sire_speed"
                  ELSE "ped_prior"]

----------------------------------------------------------------------------
(* evaluator.py _surface_text and _comment_blocks.  tr is a trait record   *)
(* in whole points, t the returned turfiness in thousandths.  The texts    *)
(* are written as tags: pattern "C"/"P"/"S"/"B" is the source's kind; the  *)
(* clause "caution" is the text appended at lines 239-240, "confidence"    *)
(* the text appended at lines 242-243.                                     *)

\* lines 182-190: the surface tendency
SurfaceOf(t) == IF t >= 680 THEN "turf" ELSE IF t <= 420 THEN "dirt" ELSE "neutral"

\* lines 193-202: the short reason
SurfaceReasonOf(speed, power) ==
    IF speed - power >= 12 THEN "speed_over_power"
    ELSE IF speed - power <= -12 THEN "power_over_speed"
    ELSE "close"

_surface_text(t, speed, power) ==
    [surface |-> SurfaceOf(t), reason |-> SurfaceReasonOf(speed, power)]

\* Mutant of PatternOf: the stamina pattern is tested before the speed one.
PatternStaminaFirst(tr) ==
    IF tr.Stamina >= 78 /\ tr.Durability >= 72 THEN "S"
    ELSE IF tr.Speed >= 78 /\ tr.Acceleration >= 75 /\ tr.Power < 72 THEN "C"
    ELSE IF tr.Power >= 78 /\ tr.Stability >= 70 /\ tr.Speed < 74 THEN "P"
    ELSE "B"

\* lines 220-235: main pattern selection, if / elif / elif / else
PatternOf(tr) ==
    IF tr.Speed >= 78 /\ tr.Acceleration >= 75 /\ tr.Power < 72 THEN "C"
    ELSE IF tr.Power >= 78 /\ tr.Stability >= 70 /\ tr.Speed < 74 THEN "P"
    ELSE IF tr.Stamina >= 78 /\ tr.Durability >= 72 THEN "S"
    ELSE "B"

\* lines 238-243: the clauses appended to the pattern text, in order
ClausesOf(tr) ==
    IF tr.Risk >= 65 \/ tr.Stability <= 55 THEN <<"caution">>
    ELSE IF tr.Stability >= 75 /\ tr.Risk <= 40 THEN <<"confidence">>
    ELSE <<>>

_comment_blocks(tr, t) ==
    [ pattern |-> PatternOf(tr),
      clauses |-> ClausesOf(tr),
      surface |-> _surface_text(t, tr.Speed, tr.Power).surface,
      surface_reason |-> _surface_text(t, tr.Speed, tr.Power).reason ]

----------------------------------------------------------------------------
(* evaluator.py evaluate_horse: confidence (lines 360-367, 385), hundredths *)

\* Mutant of ConfidenceOf: a path counts only when its file could be used.
ConfidenceOfDecoded(photo_rel, vid_rel, used) ==
    _clamp(45 + (IF notes.photo = "photo_applied" THEN 20 ELSE 0)
              + (IF vid_rel # "" /\ failure = "" THEN 20 ELSE 0)
              + Min(15, 5 * used), 30, 95)

ConfidenceOf(photo_rel, vid_rel, used) ==
    _clamp(45 + (IF photo_rel # "" THEN 20 ELSE 0)
              + (IF vid_rel # "" THEN 20 ELSE 0)
              + Min(15, 5 * used), 30, 95)

----------------------------------------------------------------------------
(* market.py estimate_market.  Money fields in thousand yen.               *)
(* "AllTheBest_ja", "AsiaExpress_ja", "Eskendereya_ja" stand for the       *)
(* katakana keys of DEFAULTS (lines 11-13).                                *)

DEFAULTS == ("AllTheBest_ja" :> 3300) @@ ("AsiaExpress_ja" :> 2000) @@ ("Eskendereya_ja" :> 1700)

\* Mutant of SireMedian: "safe_float(...) or ...", an override of 0 is skipped.
SireMedianTruthy(mi, sire, table) ==
    IF safe_float(mi.sire_fee_median).ok /\ safe_float(mi.sire_fee_median).v # 0
    THEN safe_float(mi.sire_fee_median).v
    ELSE IF sire \in DOMAIN table THEN table[sire]
    ELSE IF sire \in DOMAIN DEFAULTS THEN DEFAULTS[sire]
    ELSE 1500

\* sire_median (lines 35-37): the override, else db, else DEFAULTS, else 1,500,000
SireMedian(mi, sire, table) ==
    IF safe_float(mi.sire_fee_median).ok THEN safe_float(mi.sire_fee_median).v
    ELSE IF sire \in DOMAIN table THEN table[sire]
    ELSE IF sire \in DOMAIN DEFAULTS THEN DEFAULTS[sire]
    ELSE 1500

\* the sex text contains the filly / the colt character (lines 50, 52)
HasFillyChar(sex) == sex \in {"filly", "colt_and_filly"}
HasColtChar(sex) == sex \in {"colt", "colt_and_filly"}

\* Mutant of SexFactor: colt and filly multipliers exchanged.
SexFactorSwapped(sex) == IF HasFillyChar(sex) THEN 103 ELSE IF HasColtChar(sex) THEN 106 ELSE 100

\* base *= 1.06 / 1.03 / unchanged; hundredths
SexFactor(sex) == IF HasFillyChar(sex) THEN 106 ELSE IF HasColtChar(sex) THEN 103 ELSE 100

\* min(3000000.0, dam_value * 0.25) in units of 250 yen; min(x, NaN) is x
DamPremium(mi) ==
    IF safe_float(mi.dam_value).nan THEN 12000
    ELSE Min(12000, SafeFloatOrZero(mi.dam_value))

\* base is a NaN when one of its other summands is (lines 43-47)
BaseIsNaN(mi) ==
    \/ safe_float(mi.sire_fee_median).nan
    \/ safe_float(mi.blacktype_count).nan
    \/ safe_float(mi.nearby_gsw).nan

\* base before the sex adjustment (lines 43-47), in units of 250 yen
MarketBase(mi, sire, table) ==
    4 * SireMedian(mi, sire, table)
      + DamPremium(mi)
      + 1000 * SafeFloatOrZero(mi.blacktype_count)
      + 1400 * SafeFloatOrZero(mi.nearby_gsw)

\* the payload fields each function reads with payload.get
\* (evaluator.py lines 272-276, 323-324; market.py lines 31-32)
EvaluateReads ==
    {"body_weight", "height", "girth", "cannon", "distance_m", "sire", "damsire"}
MarketReads == {"sire", "sex"}

\* Mutant of AdjustedBase: the median is looked up under the damsire's name.
AdjustedBaseByDamsire(pl, mi, table) == MarketBase(mi, pl.damsire, table) * SexFactor(pl.sex)

\* base after the sex adjustment (lines 50-53), in units of 2.5 yen
AdjustedBase(pl, mi, table) == MarketBase(mi, pl.sire, table) * SexFactor(pl.sex)

\* int(round(base * 0.65, -4)) and int(round(base * 1.50, -4)); yen
MarketLow(pl, mi, table) == 10000 * RoundHalfEven(AdjustedBase(pl, mi, table) * 65, 400000)
MarketHigh(pl, mi, table) == 10000 * RoundHalfEven(AdjustedBase(pl, mi, table) * 150, 400000)

\* the outcome of the call: int(round(NaN, -4)) raises ValueError at line 56
\* and nothing is returned; otherwise the returned dict (lines 64-69), yen
estimate_market(pl, mi, table) ==
    IF BaseIsNaN(mi)
    THEN [ yen_low |-> 0, yen_high |-> 0, anchor |-> 0, error |-> "ValueError" ]
    ELSE [ yen_low  |-> Max(0, MarketLow(pl, mi, table)),
           yen_high |-> Max(MarketLow(pl, mi, table), MarketHigh(pl, mi, table)),
           anchor   |-> 10000 * RoundHalfEven(SireMedian(mi, pl.sire, table), 10),
           error    |-> "" ]

----------------------------------------------------------------------------
(* video_features.py.  m and v are the mean and the variance of the frame  *)
(* differences, in hundredths.                                             *)

\* max(35.0, min(90.0, (m / 10.0) * 100.0)); in 1/1000
MotionOf(m) == Max(35000, Min(90000, 100 * m))
\* max(35.0, min(90.0, (m / 10.0) * 85.0 + (v / 30.0) * 15.0)); in 1/1000
SpeedOf(m, v) == Max(35000, Min(90000, 85 * m + 5 * v))

\* volatility = _clamp((var / 30.0) * 100.0, 0, 100); in 1/30
Volatility(var) == _clamp(var, 0, 3000)

\* Mutant of _pack: accel and stability are not clamped to [35, 90].
PackUnclamped(motion, speed, var, note_ja) ==
    [ motion_score    |-> RoundHalfEven(_clamp(motion, 0, 100000), 1000),
      speed_score     |-> RoundHalfEven(_clamp(speed, 0, 100000), 1000),
      accel_score     |-> RoundHalfEven(24000 + 11 * Volatility(var), 600),
      stability_score |-> RoundHalfEven(27000 - 7 * Volatility(var), 300),
      volatility      |-> RoundHalfEven(Volatility(var), 30),
      note_ja         |-> note_ja ]

\* _pack(motion, speed, var, note_ja); motion and speed in 1/1000, var in
\* hundredths; the scores in whole points
_pack(motion, speed, var, note_ja) ==
    [ motion_score    |-> RoundHalfEven(_clamp(motion, 0, 100000), 1000),
      speed_score     |-> RoundHalfEven(_clamp(speed, 0, 100000), 1000),
      \* accel = _clamp(40.0 + 0.55 * volatility, 35, 90); in 1/600
      accel_score     |-> RoundHalfEven(
                              _clamp(24000 + 11 * Volatility(var), 21000, 54000), 600),
      \* stability = _clamp(90.0 - 0.70 * volatility, 35, 90); in 1/300
      stability_score |-> RoundHalfEven(
                              _clamp(27000 - 7 * Volatility(var), 10500, 27000), 300),
      volatility      |-> RoundHalfEven(Volatility(var), 30),
      note_ja         |-> note_ja ]

\* Mutant of NeutralPack: the neutral result is built from var = 30.
NeutralPackHighVar(note_ja) == _pack(50000, 50000, 3000, note_ja)

\* return _pack(50, 50, 0, <failure note>)  (lines 50, 60, 75, 87, 101).
\* Notes: "video_load_failed" = lines 50, 87, 101; "video_no_frames" = lines 60, 75
NeutralPack(note_ja) == _pack(50000, 50000, 0, note_ja)

\* Mutant of NeedsFallback: the primary result is always used.
NeedsFallbackNever(n) == FALSE

\* if not diffs: return _video_motion_features_imageio(str(p))  (line 129)
NeedsFallback(n) == n = 0

\* Mutant of SamplesFor: the lower limit of 6 positions is missing.
SamplesForNoFloor(fc) == Min(24, IF fc # 0 THEN fc \div 10 ELSE 12)

\* samples = min(24, max(6, frame_count // 10 if frame_count else 12)) (line 110)
SamplesFor(fc) == Min(24, Max(6, IF fc # 0 THEN fc \div 10 ELSE 12))

\* min(samples, len(frames)) with samples = 24 (line 62)
ImageioSamples(n) == Min(24, n)

----------------------------------------------------------------------------
(* Values a variable holds before the step that computes it has run *)

NoIndices ==
    [body |-> 0, photo |-> 0, motion |-> 0, speed |-> 0,
     pedigree |-> 0, accel |-> 0, stability |-> 0]
NoNotes == [body |-> "", photo |-> "", video |-> "", pedigree |-> ""]
NoTraits ==
    [Speed |-> 0, Power |-> 0, Stamina |-> 0, Durability |-> 0,
     Risk |-> 0, Acceleration |-> 0, Stability |-> 0]
NoAbility ==
    [Ability |-> 0, alpha |-> 0, turfiness |-> 0, speed_star |-> 0, risk_star |-> 0]
NoVf ==
    [motion_score |-> 0, speed_score |-> 0, accel_score |-> 0, stability_score |-> 0,
     volatility |-> 0, note_ja |-> ""]
NoMarket == [yen_low |-> 0, yen_high |-> 0, anchor |-> 0, error |-> ""]
NoComments == [pattern |-> "", clauses |-> <<>>, surface |-> "", surface_reason |-> ""]
NoCall == [call |-> "", args |-> <<>>, result |-> <<>>]
NoFile == [kind |-> "missing", sharp |-> 0, fg |-> 0, ar |-> 0]
EmptyPayload ==
    [sire |-> "", damsire |-> "", sex |-> "", body_weight |-> Absent, height |-> Absent,
     girth |-> Absent, cannon |-> Absent, distance_m |-> Absent]
NoMarketInputs ==
    [sire_fee_median |-> Absent, dam_value |-> Absent, blacktype_count |-> Absent,
     nearby_gsw |-> Absent]
EmptyTable == [s \in {} |-> 0]

EvalIdle ==
    /\ indices = NoIndices
    /\ used_measure = 0
    /\ notes = NoNotes
    /\ distance_m = 0
    /\ traits = NoTraits
    /\ ability_pack = NoAbility
    /\ rank = "none"
    /\ stars = <<>>

ReportIdle ==
    /\ comments = NoComments
    /\ conf = 0

\* registration defaults of a users row (models.py 19-23)
NewUser ==
    [plan |-> "free", quota_used_total |-> 0, quota_used_month |-> 0, quota_month |-> <<>>]
NoResponse == [route |-> "", plan |-> "", pr |-> 0]
StartOfClock == [year |-> 2026, month |-> 12]

\* no web request: the account state is not touched by a scoring call
AcctIdle ==
    /\ user = NewUser
    /\ now = StartOfClock
    /\ session = <<>>
    /\ evaluations = EmptyTable
    /\ payment_requests = <<>>
    /\ response = NoResponse

\* a single call of function f, nothing called before it
SingleCall(f) ==
    /\ call = f
    /\ earlier = NoCall

VideoIdle ==
    /\ path_exists = FALSE
    /\ cap_opened = FALSE
    /\ frame_count = 0
    /\ samples = 0
    /\ pos = 0
    /\ prev = FALSE
    /\ diffs = 0
    /\ frames = 0
    /\ io_samples = 0
    /\ io_diffs = 0
    /\ producer = "none"
    /\ failure = ""
    /\ vf = NoVf

InputsIdle ==
    /\ payload = EmptyPayload
    /\ side_photo_rel = ""
    /\ photo_file = NoFile
    /\ video_rel = ""
    /\ market_inputs = NoMarketInputs
    /\ db = EmptyTable
    /\ iio = TRUE

----------------------------------------------------------------------------
(* Input domains *)

\* index values (hundredths): below range, a 2-decimal value near neutral,
\* the upper end of the range, above range
IndexValues == {0, 5025, 9000, 10000}

\* metres: unset/non-positive, each bucket and each bucket edge
Distances == {0, 1000, 1400, 1401, 2000, 2001, 2600}

\* trait values inside the documented ranges
TraitValues == {35, 62, 90}
RiskValues == {10, 45, 80}

IndexSets ==
    [body : IndexValues, photo : IndexValues, motion : IndexValues, speed : IndexValues,
     pedigree : IndexValues, accel : IndexValues, stability : IndexValues]

TraitVectors ==
    [Speed : TraitValues, Power : TraitValues, Stamina : TraitValues,
     Durability : TraitValues, Risk : RiskValues, Acceleration : TraitValues,
     Stability : TraitValues]

\* form payloads of evaluate_horse (measurements in tenths, distance in metres)
EvalPayloads ==
    [sire : {"", "Speightstown", "Unseen"},
     damsire : {"", "Asia Express"},
     sex : {""},
     body_weight : {Absent, Malformed, Num(0), Num(-3800), Num(4200)},
     height : {Blank, Num(0), Num(1550)},
     girth : {Blank, Num(-1), Num(1760)},
     cannon : {Absent, Num(0), Num(195)},
     distance_m : {Blank, Malformed, Num(0), Num(1200), Num(1600), Num(2400)}]

\* the payloads evaluated together with a video
VideoPayloads ==
    {[EmptyPayload EXCEPT !.sire = "Speightstown", !.distance_m = Num(1200)],
     [EmptyPayload EXCEPT !.body_weight = Num(4200), !.distance_m = Num(2400)]}

\* payloads with several measurements, evaluated with a photo and a video
FullPayloads ==
    {[EmptyPayload EXCEPT !.body_weight = Num(4200), !.height = Num(1550)],
     [EmptyPayload EXCEPT !.body_weight = Num(4200), !.height = Num(1550),
                          !.girth = Num(1760), !.cannon = Num(195),
                          !.damsire = "Asia Express", !.distance_m = Num(1000)]}

\* what image_body_feature can find at the photo path
PhotoFiles ==
    {[kind |-> "missing", sharp |-> 0, fg |-> 0, ar |-> 0],
     [kind |-> "unreadable", sharp |-> 0, fg |-> 0, ar |-> 0],
     [kind |-> "image", sharp |-> 3, fg |-> 400, ar |-> 50],
     [kind |-> "image", sharp |-> 500, fg |-> 80, ar |-> 160]}

\* CAP_PROP_FRAME_COUNT as reported by the container: unknown (0), negative,
\* short clips, and clips long enough for 24 samples
FrameCounts == {-1, 0, 1, 59, 100, 240, 5000}

\* mean and variance of the frame differences (hundredths)
Means == {0, 420, 637, 1000, 25500}
Variances == {0, 900, 1500, 20000}

\* n differences of 8-bit pixel means can have mean m and variance v
Feasible(n, m, v) ==
    /\ n <= 1 => v = 0
    /\ 100 * v <= m * (25500 - m)

\* market form fields (thousand yen; counts)
MarketInputSets ==
    [sire_fee_median : {Absent, Blank, Malformed, NaNText, Num(0), Num(2000), Num(-1000)},
     dam_value : {Absent, Malformed, NaNText, Num(0), Num(1000), Num(16000), Num(-4000)},
     blacktype_count : {Blank, Malformed, Num(0), Num(2), Num(-3)},
     nearby_gsw : {Absent, Malformed, NaNText, Num(1), Num(-2)}]

MarketPayloads ==
    {[EmptyPayload EXCEPT !.sire = s, !.sex = x] :
        s \in {"", "Unseen", "Unseen2", "AllTheBest_ja", "Eskendereya_ja"},
        x \in {"", "colt", "filly", "colt_and_filly", "gelding"}}

\* contents of data/market_medians.json (thousand yen)
MedianTables == {EmptyTable, ("AllTheBest_ja" :> 4000) @@ ("Unseen2" :> 900)}

----------------------------------------------------------------------------
(* evaluate_horse, step by step (evaluator.py lines 261-355) *)

\* lines 272-298: parse the numeric fields, body index
EvalMeasurements ==
    /\ pc = "eval"
    /\ LET bw     == _as_float(payload.body_weight, 0)
           height == _as_float(payload.height, 0)
           girth  == _as_float(payload.girth, 0)
           cannon == _as_float(payload.cannon, 0)
           body   == BodyIndex(bw, height, girth, cannon)
       IN  /\ distance_m' = _as_float(payload.distance_m, 1600)
           /\ used_measure' = UsedMeasure(bw, height, girth, cannon)
           /\ indices' = [indices EXCEPT !.body = body.index]
           /\ notes' = [notes EXCEPT !.body = body.note]
    /\ pc' = "eval_photo"
    /\ UNCHANGED <<inputVars, reportVars, callVars, acctVars,
                   videoVars, market, traits, ability_pack, rank, stars>>

\* lines 300-306: photo index
EvalPhoto ==
    /\ pc = "eval_photo"
    /\ indices' = [indices EXCEPT !.photo = PhotoIndex(side_photo_rel, photo_file).index]
    /\ notes' = [notes EXCEPT !.photo = PhotoIndex(side_photo_rel, photo_file).note]
    /\ pc' = "eval_video"
    /\ UNCHANGED <<inputVars, reportVars, callVars, acctVars,
                   videoVars, market, used_measure, distance_m, traits,
                   ability_pack, rank, stars>>

\* lines 308-314 with video_rel empty: the four video indices stay 50.0;
\* "video_defaulted" = line 313
EvalNoVideo ==
    /\ pc = "eval_video"
    /\ video_rel = ""
    /\ indices' = [indices EXCEPT !.motion = 5000, !.speed = 5000,
                                  !.accel = 5000, !.stability = 5000]
    /\ notes' = [notes EXCEPT !.video = "video_defaulted"]
    /\ pc' = "eval_pedigree"
    /\ UNCHANGED <<inputVars, reportVars, callVars, acctVars,
                   videoVars, market, used_measure, distance_m, traits,
                   ability_pack, rank, stars>>

\* line 315: vf = video_motion_features(video_rel)
EvalVideoCall ==
    /\ pc = "eval_video"
    /\ video_rel # ""
    /\ pc' = "v_start"
    /\ UNCHANGED <<inputVars, reportVars, callVars, acctVars, evalVars, videoVars, market>>

\* lines 316-320: read the returned dict; the callee's locals are gone
EvalVideoReturn ==
    /\ pc = "v_return"
    /\ indices' = [indices EXCEPT !.motion = 100 * vf.motion_score,
                                  !.speed = 100 * vf.speed_score,
                                  !.accel = 100 * vf.accel_score,
                                  !.stability = 100 * vf.stability_score]
    /\ notes' = [notes EXCEPT !.video = vf.note_ja]
    /\ pc' = "eval_pedigree"
    /\ path_exists' = FALSE /\ cap_opened' = FALSE /\ frame_count' = 0
    /\ samples' = 0 /\ pos' = 0 /\ prev' = FALSE /\ diffs' = 0
    /\ frames' = 0 /\ io_samples' = 0 /\ io_diffs' = 0
    /\ UNCHANGED <<inputVars, reportVars, callVars, acctVars,
                   market, used_measure, distance_m, traits, ability_pack,
                   rank, stars, producer, failure, vf>>

\* lines 322-336: pedigree prior
EvalPedigree ==
    /\ pc = "eval_pedigree"
    /\ indices' = [indices EXCEPT
                      !.pedigree = PedigreeIndex(payload.sire, payload.damsire).index]
    /\ notes' = [notes EXCEPT
                      !.pedigree = PedigreeIndex(payload.sire, payload.damsire).note]
    /\ pc' = "derive"
    /\ UNCHANGED <<inputVars, reportVars, callVars, acctVars,
                   videoVars, market, used_measure, distance_m, traits,
                   ability_pack, rank, stars>>

\* lines 341-350
DeriveTraits ==
    /\ pc = "derive"
    /\ traits' = _derive_traits(indices, distance_m)
    /\ pc' = "ability"
    /\ UNCHANGED <<inputVars, reportVars, callVars, acctVars, videoVars, market, indices,
                   used_measure, notes, distance_m, ability_pack, rank, stars>>

\* lines 352-353
AbilityFromTraits ==
    /\ pc = "ability"
    /\ ability_pack' = _ability_from_traits(traits, distance_m)
    /\ pc' = "rank"
    /\ UNCHANGED <<inputVars, reportVars, callVars, acctVars, videoVars, market, indices,
                   used_measure, notes, distance_m, traits, rank, stars>>

\* lines 354-355
RankAndStars ==
    /\ pc = "rank"
    /\ rank' = _rank_from_ability(ability_pack.Ability)
    /\ stars' = _stars_from_ability(ability_pack.Ability)
    /\ pc' = "comment"
    /\ UNCHANGED <<inputVars, reportVars, callVars, acctVars, videoVars, market, indices,
                   used_measure, notes, distance_m, traits, ability_pack>>

\* line 358
CommentBlocks ==
    /\ pc = "comment"
    /\ comments' = _comment_blocks(traits, ability_pack.turfiness)
    /\ pc' = "conf"
    /\ UNCHANGED <<inputVars, callVars, acctVars, evalVars, videoVars, market, conf>>

\* lines 360-367 and the rounding of line 385
Confidence ==
    /\ pc = "conf"
    /\ conf' = ConfidenceOf(side_photo_rel, video_rel, used_measure)
    /\ pc' = "done"
    /\ UNCHANGED <<inputVars, callVars, acctVars, evalVars, videoVars, market, comments>>

----------------------------------------------------------------------------
(* video_motion_features (video_features.py lines 90-141) *)

VideoReturnNeutral(by, why, note) ==
    /\ vf' = NeutralPack(note)
    /\ producer' = by
    /\ failure' = why
    /\ pc' = "v_return"

\* lines 99-101: the file is not there
VideoMissing ==
    /\ pc = "v_start"
    /\ path_exists' = FALSE
    /\ VideoReturnNeutral("missing", "file_missing", "video_load_failed")
    /\ UNCHANGED <<inputVars, reportVars, callVars, acctVars,
                   evalVars, market, cap_opened, frame_count, samples, pos,
                   prev, diffs, frames, io_samples, io_diffs>>

\* lines 103-106: OpenCV cannot open the file; fall back
VideoOpenFailed ==
    /\ pc = "v_start"
    /\ path_exists' = TRUE
    /\ cap_opened' = FALSE
    /\ pc' = "io_start"
    /\ UNCHANGED <<inputVars, reportVars, callVars, acctVars,
                   evalVars, market, frame_count, samples, pos, prev, diffs,
                   frames, io_samples, io_diffs, producer, failure, vf>>

\* lines 103-114: opened; frame count read, sample positions chosen
VideoOpened ==
    /\ pc = "v_start"
    /\ path_exists' = TRUE
    /\ cap_opened' = TRUE
    /\ \E fc \in FrameCounts :
          /\ frame_count' = fc
          /\ samples' = SamplesFor(fc)
    /\ pos' = 0
    /\ prev' = FALSE
    /\ diffs' = 0
    /\ pc' = "cv_loop"
    /\ UNCHANGED <<inputVars, reportVars, callVars, acctVars,
                   evalVars, market, frames, io_samples, io_diffs, producer,
                   failure, vf>>

\* lines 115-125: one pass of the loop over idxs; the read succeeds or not
CvSample ==
    /\ pc = "cv_loop"
    /\ pos < samples
    /\ pos' = pos + 1
    /\ \E ok \in BOOLEAN :
          IF ok
          THEN /\ diffs' = IF prev THEN diffs + 1 ELSE diffs
               /\ prev' = TRUE
          ELSE UNCHANGED <<diffs, prev>>
    /\ UNCHANGED <<pc, inputVars, reportVars, callVars, acctVars,
                   evalVars, market, path_exists, cap_opened, frame_count,
                   samples, frames, io_samples, io_diffs, producer, failure, vf>>

\* lines 127-131: no difference could be taken; fall back
CvFallback ==
    /\ pc = "cv_loop"
    /\ pos = samples
    /\ NeedsFallback(diffs)
    /\ pc' = "io_start"
    /\ UNCHANGED <<inputVars, reportVars, callVars, acctVars, evalVars, market, videoVars>>

\* lines 133-141: scores from the OpenCV samples; "video_cv" = line 140
CvScore ==
    /\ pc = "cv_loop"
    /\ pos = samples
    /\ ~NeedsFallback(diffs)
    /\ \E m \in Means, v \in Variances :
          /\ Feasible(diffs, m, v)
          /\ vf' = _pack(MotionOf(m), SpeedOf(m, v), v, "video_cv")
    /\ producer' = "cv"
    /\ failure' = ""
    /\ pc' = "v_return"
    /\ UNCHANGED <<inputVars, reportVars, callVars, acctVars,
                   evalVars, market, path_exists, cap_opened, frame_count,
                   samples, pos, prev, diffs, frames, io_samples, io_diffs>>

----------------------------------------------------------------------------
(* _video_motion_features_imageio (video_features.py lines 48-87) *)

\* lines 49-50: imageio is not installed
ImageioUnavailable ==
    /\ pc = "io_start"
    /\ ~iio
    /\ VideoReturnNeutral("imageio", "iio_missing", "video_load_failed")
    /\ UNCHANGED <<inputVars, reportVars, callVars, acctVars,
                   evalVars, market, path_exists, cap_opened, frame_count,
                   samples, pos, prev, diffs, frames, io_samples, io_diffs>>

\* lines 52-54: frames = []
ImageioBegin ==
    /\ pc = "io_start"
    /\ iio
    /\ frames' = 0
    /\ pc' = "io_decode"
    /\ UNCHANGED <<inputVars, reportVars, callVars, acctVars,
                   evalVars, market, path_exists, cap_opened, frame_count,
                   samples, pos, prev, diffs, io_samples, io_diffs, producer, failure, vf>>

\* lines 55-58: the decoder yields one more frame; break at the hard cap
ImageioFrame ==
    /\ pc = "io_decode"
    /\ frames' = frames + 1
    /\ pc' = IF frames + 1 >= 240 THEN "io_sample" ELSE "io_decode"
    /\ UNCHANGED <<inputVars, reportVars, callVars, acctVars,
                   evalVars, market, path_exists, cap_opened, frame_count,
                   samples, pos, prev, diffs, io_samples, io_diffs, producer, failure, vf>>

\* line 55: the stream ends
ImageioEnd ==
    /\ pc = "io_decode"
    /\ pc' = "io_sample"
    /\ UNCHANGED <<inputVars, reportVars, callVars, acctVars, evalVars, market, videoVars>>

\* lines 55, 86-87: the decoder raises (cannot open, corrupt stream)
ImageioRaise ==
    /\ pc = "io_decode"
    /\ VideoReturnNeutral("imageio", "decoder_exception", "video_load_failed")
    /\ UNCHANGED <<inputVars, reportVars, callVars, acctVars,
                   evalVars, market, path_exists, cap_opened, frame_count,
                   samples, pos, prev, diffs, frames, io_samples, io_diffs>>

\* lines 59-60: fewer than 3 frames buffered
ImageioTooFew ==
    /\ pc = "io_sample"
    /\ frames < 3
    /\ VideoReturnNeutral("imageio", "few_frames", "video_no_frames")
    /\ UNCHANGED <<inputVars, reportVars, callVars, acctVars,
                   evalVars, market, path_exists, cap_opened, frame_count,
                   samples, pos, prev, diffs, frames, io_samples, io_diffs>>

\* lines 62-72, 86-87: a frame conversion raises inside the sampling loop
ImageioSampleRaise ==
    /\ pc = "io_sample"
    /\ frames >= 3
    /\ io_samples' = ImageioSamples(frames)
    /\ VideoReturnNeutral("imageio", "decoder_exception", "video_load_failed")
    /\ UNCHANGED <<inputVars, reportVars, callVars, acctVars,
                   evalVars, market, path_exists, cap_opened, frame_count,
                   samples, pos, prev, diffs, frames, io_diffs>>

\* lines 62-85: every sampled frame gives a difference with its predecessor;
\* "video_imageio" = line 84
ImageioScore ==
    /\ pc = "io_sample"
    /\ frames >= 3
    /\ io_samples' = ImageioSamples(frames)
    /\ io_diffs' = ImageioSamples(frames) - 1
    /\ IF ImageioSamples(frames) - 1 = 0
       THEN VideoReturnNeutral("imageio", "no_diffs", "video_no_frames")
       ELSE /\ \E m \in Means, v \in Variances :
                  /\ Feasible(ImageioSamples(frames) - 1, m, v)
                  /\ vf' = _pack(MotionOf(m), SpeedOf(m, v), v, "video_imageio")
            /\ producer' = "imageio"
            /\ failure' = ""
            /\ pc' = "v_return"
    /\ UNCHANGED <<inputVars, reportVars, callVars, acctVars,
                   evalVars, market, path_exists, cap_opened, frame_count,
                   samples, pos, prev, diffs, frames>>

VideoSteps ==
    \/ VideoMissing \/ VideoOpenFailed \/ VideoOpened
    \/ CvSample \/ CvFallback \/ CvScore
    \/ ImageioUnavailable \/ ImageioBegin
    \/ ImageioFrame \/ ImageioEnd \/ ImageioRaise
    \/ ImageioTooFew \/ ImageioSampleRaise \/ ImageioScore

----------------------------------------------------------------------------
(* estimate_market (market.py lines 26-69) *)

EstimateMarket ==
    /\ pc = "market"
    /\ market' = estimate_market(payload, market_inputs, db)
    /\ pc' = "done"
    /\ UNCHANGED <<inputVars, reportVars, callVars, acctVars, evalVars, videoVars>>

----------------------------------------------------------------------------
(* SpecTraits: _derive_traits applied to every combination of index values *)

InitTraits ==
    /\ pc = "derive"
    /\ InputsIdle /\ VideoIdle
    /\ market = NoMarket
    /\ ReportIdle /\ SingleCall("_derive_traits") /\ AcctIdle
    /\ indices \in IndexSets
    /\ distance_m \in Distances
    /\ used_measure = 0
    /\ notes = NoNotes
    /\ traits = NoTraits
    /\ ability_pack = NoAbility
    /\ rank = "none"
    /\ stars = <<>>

NextTraits == DeriveTraits

SpecTraits == InitTraits /\ [][NextTraits]_vars

(* SpecAbility: _ability_from_traits applied to trait vectors in range *)

InitAbility ==
    /\ pc = "ability"
    /\ InputsIdle /\ VideoIdle
    /\ market = NoMarket
    /\ ReportIdle /\ SingleCall("_ability_from_traits") /\ AcctIdle
    /\ indices = NoIndices
    /\ distance_m \in Distances
    /\ used_measure = 0
    /\ notes = NoNotes
    /\ traits \in TraitVectors
    /\ ability_pack = NoAbility
    /\ rank = "none"
    /\ stars = <<>>

NextAbility == AbilityFromTraits \/ RankAndStars

SpecAbility == InitAbility /\ [][NextAbility]_vars

(* SpecRank: rank and stars of every 2-decimal ability value in [1, 99] *)

InitRank ==
    /\ pc = "rank"
    /\ InputsIdle /\ VideoIdle
    /\ market = NoMarket
    /\ ReportIdle /\ SingleCall("evaluate_horse") /\ AcctIdle
    /\ indices = NoIndices
    /\ distance_m = 0
    /\ used_measure = 0
    /\ notes = NoNotes
    /\ traits = NoTraits
    /\ ability_pack \in {[NoAbility EXCEPT !.Ability = a] : a \in 100..9900}
    /\ rank = "none"
    /\ stars = <<>>

NextRank == RankAndStars \/ CommentBlocks \/ Confidence

SpecRank == InitRank /\ [][NextRank]_vars

(* SpecMarket: one estimate_market call *)

InitMarket ==
    /\ pc = "market"
    /\ EvalIdle /\ VideoIdle
    /\ market = NoMarket
    /\ ReportIdle /\ SingleCall("estimate_market") /\ AcctIdle
    /\ payload \in MarketPayloads
    /\ market_inputs \in MarketInputSets
    /\ db \in MedianTables
    /\ side_photo_rel = ""
    /\ photo_file = NoFile
    /\ video_rel = ""
    /\ iio = TRUE

NextMarket == EstimateMarket

SpecMarket == InitMarket /\ [][NextMarket]_vars

(* SpecVideo: one video_motion_features call on an uploaded file *)

InitVideo ==
    /\ pc = "v_start"
    /\ EvalIdle /\ VideoIdle
    /\ market = NoMarket
    /\ ReportIdle /\ SingleCall("video_motion_features") /\ AcctIdle
    /\ payload = EmptyPayload
    /\ market_inputs = NoMarketInputs
    /\ db = EmptyTable
    /\ side_photo_rel = ""
    /\ photo_file = NoFile
    /\ video_rel = "uploads/video.mov"
    /\ iio \in BOOLEAN

NextVideo == VideoSteps

SpecVideo == InitVideo /\ [][NextVideo]_vars

(* SpecEval: one evaluate_horse call *)

InitEval ==
    /\ pc = "eval"
    /\ EvalIdle /\ VideoIdle
    /\ market = NoMarket
    /\ ReportIdle /\ SingleCall("evaluate_horse") /\ AcctIdle
    /\ market_inputs = NoMarketInputs
    /\ db = EmptyTable
    /\ \/ /\ payload \in EvalPayloads
          /\ video_rel = ""
          /\ iio = TRUE
          /\ \/ side_photo_rel = "" /\ photo_file = NoFile
             \/ side_photo_rel = "uploads/side.jpg" /\ photo_file \in PhotoFiles
       \/ /\ payload \in VideoPayloads
          /\ video_rel = "uploads/video.mov"
          /\ iio \in BOOLEAN
          /\ side_photo_rel = "" /\ photo_file = NoFile
       \/ /\ payload \in FullPayloads
          /\ video_rel = "uploads/video.mov"
          /\ iio = TRUE
          /\ side_photo_rel = "uploads/side.jpg"
          /\ photo_file \in {f \in PhotoFiles : f.kind \in {"missing", "image"} /\ f.sharp # 3}

NextEval ==
    \/ EvalMeasurements \/ EvalPhoto \/ EvalNoVideo \/ EvalVideoCall
    \/ VideoSteps
    \/ EvalVideoReturn \/ EvalPedigree
    \/ DeriveTraits \/ AbilityFromTraits \/ RankAndStars
    \/ CommentBlocks \/ Confidence

SpecEval == InitEval /\ [][NextEval]_vars

(* SpecComment: _comment_blocks applied to trait vectors around its thresholds *)

\* trait vectors on both sides of every threshold of lines 220-241
CommentTraitVectors ==
    [Speed : {73, 74, 77, 78}, Power : {71, 72, 77, 78}, Stamina : {77, 78},
     Durability : {71, 72}, Risk : {40, 41, 64, 65}, Acceleration : {74, 75},
     Stability : {55, 56, 69, 70, 74, 75}]

InitComment ==
    /\ pc = "comment"
    /\ InputsIdle /\ VideoIdle
    /\ market = NoMarket
    /\ ReportIdle /\ SingleCall("_comment_blocks") /\ AcctIdle
    /\ indices = NoIndices
    /\ distance_m = 0
    /\ used_measure = 0
    /\ notes = NoNotes
    /\ traits \in CommentTraitVectors
    /\ ability_pack \in {[NoAbility EXCEPT !.turfiness = t] : t \in {420, 421, 679, 680}}
    /\ rank = "none"
    /\ stars = <<>>

NextComment == CommentBlocks

SpecComment == InitComment /\ [][NextComment]_vars

----------------------------------------------------------------------------
(* SpecCalls: a sequence of evaluate_horse and estimate_market calls, as   *)
(* issued by successive requests (app.py lines 237-238).  The locals of a  *)
(* finished call are left as they are: a new call starts on whatever the   *)
(* previous ones left behind, and reads a local only after assigning it.   *)

CallPayloads ==
    {[EmptyPayload EXCEPT !.sire = "Speightstown", !.distance_m = Num(1200)],
     [EmptyPayload EXCEPT !.sire = "AllTheBest_ja", !.sex = "filly",
                          !.body_weight = Num(4200), !.height = Num(1550)]}

CallMarketInputs ==
    {NoMarketInputs,
     [sire_fee_median |-> Num(2000), dam_value |-> Num(1000),
      blacktype_count |-> Num(2), nearby_gsw |-> Malformed]}

\* arguments and result of the current call
Args ==
    IF call = "evaluate_horse"
    THEN <<payload, side_photo_rel, photo_file, video_rel>>
    ELSE <<payload, market_inputs, db>>

Result ==
    IF call = "evaluate_horse"
    THEN <<indices, notes, distance_m, traits, ability_pack, rank, stars, comments, conf>>
    ELSE <<market>>

\* app.py line 237: a request calls evaluate_horse
CallEvaluate ==
    /\ pc = "done"
    /\ payload' \in CallPayloads
    /\ \/ side_photo_rel' = "" /\ photo_file' = NoFile
       \/ side_photo_rel' = "uploads/side.jpg"
            /\ photo_file' = [kind |-> "image", sharp |-> 500, fg |-> 80, ar |-> 160]
    /\ call' = "evaluate_horse"
    /\ pc' = "eval"
    /\ UNCHANGED <<video_rel, market_inputs, db, iio, evalVars, reportVars, videoVars,
                   market, earlier, acctVars>>

\* app.py line 238: a request calls estimate_market
CallMarket ==
    /\ pc = "done"
    /\ payload' \in CallPayloads
    /\ market_inputs' \in CallMarketInputs
    /\ call' = "estimate_market"
    /\ pc' = "market"
    /\ UNCHANGED <<side_photo_rel, photo_file, video_rel, db, iio, evalVars, reportVars,
                   videoVars, market, earlier, acctVars>>

\* history: keep the arguments and the result of a call that has returned
Remember ==
    /\ pc = "done"
    /\ call # ""
    /\ earlier = NoCall
    /\ earlier' = [call |-> call, args |-> Args, result |-> Result]
    /\ UNCHANGED <<pc, inputVars, evalVars, reportVars, videoVars, market, call,
                   acctVars>>

InitCalls ==
    /\ pc = "done"
    /\ call = ""
    /\ earlier = NoCall
    /\ AcctIdle
    /\ EvalIdle /\ ReportIdle /\ VideoIdle
    /\ market = NoMarket
    /\ payload = EmptyPayload
    /\ market_inputs = NoMarketInputs
    /\ db \in MedianTables
    /\ side_photo_rel = ""
    /\ photo_file = NoFile
    /\ video_rel = ""
    /\ iio = TRUE

NextCalls ==
    \/ CallEvaluate \/ CallMarket \/ Remember
    \/ EvalMeasurements \/ EvalPhoto \/ EvalNoVideo \/ EvalPedigree
    \/ DeriveTraits \/ AbilityFromTraits \/ RankAndStars
    \/ CommentBlocks \/ Confidence
    \/ EstimateMarket

SpecCalls == InitCalls /\ [][NextCalls]_vars

----------------------------------------------------------------------------
(* Accounts: the quota of a user (models.py), the evaluation request       *)
(* (app.py index), checkout and the bank-transfer payment requests         *)
(* (services/bank_payments.py, app.py checkout / admin_approve_payment).   *)

MaxConcurrent == 2      \* web requests of the user in flight at once
MaxRequests == 2        \* evaluation requests one client sends
MaxTicks == 1           \* month changes of the clock
MaxPayments == 3        \* PaymentRequest rows of the user

PLANS == {"free", "starter", "pro", "enterprise"}
PaidPlans == {"starter", "pro", "enterprise"}
None == -1

\* f"{now.year:04d}-{now.month:02d}"
MonthKey(t) == <<t.year, t.month>>

NextMonth(t) ==
    IF t.month = 12 THEN [year |-> t.year + 1, month |-> 1]
    ELSE [year |-> t.year, month |-> t.month + 1]

RECURSIVE ClockAt(_)
ClockAt(n) == IF n = 0 THEN StartOfClock ELSE NextMonth(ClockAt(n - 1))

monthly_limit(u) ==
    IF u.plan = "free" THEN 1
    ELSE IF u.plan = "starter" THEN 10
    ELSE IF u.plan = "pro" THEN 30
    ELSE IF u.plan = "enterprise" THEN None
    ELSE 1

refresh_monthly_counter(u, t) ==
    IF u.quota_month # MonthKey(t)
    THEN [u EXCEPT !.quota_month = MonthKey(t), !.quota_used_month = 0]
    ELSE u

\* the answer of can_eval; the object is left as refresh_monthly_counter made it
can_eval(u, t) ==
    LET self == refresh_monthly_counter(u, t)
        limit == monthly_limit(self)
    IN  IF self.plan = "free" THEN self.quota_used_total < 1
        ELSE IF limit = None THEN TRUE
        ELSE self.quota_used_month < limit

consume_eval(u, t) ==
    LET self == refresh_monthly_counter(u, t)
    IN  [self EXCEPT !.quota_used_total = @ + 1, !.quota_used_month = @ + 1]

\* db.session.commit() of a User object: the UPDATE carries the columns whose
\* value differs from the value loaded, the row keeps its other columns
Commit(row, loaded, obj) ==
    [c \in DOMAIN row |-> IF obj[c] # loaded[c] THEN obj[c] ELSE row[c]]

\* a client (browser tab) of the user: where its request stands, the User
\* object of the request's database session, and the requests it has sent
NoSession == [at |-> "idle", u |-> NewUser, loaded |-> NewUser, sent |-> 0]
Ended(s, outcome) == [at |-> outcome, u |-> NewUser, loaded |-> NewUser, sent |-> s.sent]

Count(table, k) == IF k \in DOMAIN table THEN table[k] ELSE 0

RECURSIVE SumOver(_, _)
SumOver(table, keys) ==
    IF keys = {} THEN 0
    ELSE LET k == CHOOSE x \in keys : TRUE
         IN  table[k] + SumOver(table, keys \ {k})

\* db.session.add(ev): one more Evaluation row of this plan and month
AddEvaluation(table, k) ==
    [x \in DOMAIN table \cup {k} |-> Count(table, x) + (IF x = k THEN 1 ELSE 0)]

\* index (POST), first part: load current_user, quota check
IndexCheck(r) ==
    /\ session[r].at # "evaluating"
    /\ session[r].sent < MaxRequests
    /\ LET loaded == user
       IN  IF can_eval(loaded, now)
           THEN session' = [session EXCEPT ![r] =
                    [at |-> "evaluating", u |-> refresh_monthly_counter(loaded, now),
                     loaded |-> loaded, sent |-> session[r].sent + 1]]
           ELSE session' = [session EXCEPT ![r] =
                    [Ended(session[r], "upgrade") EXCEPT !.sent = @ + 1]]
    /\ UNCHANGED <<pc, inputVars, evalVars, reportVars, videoVars, market, callVars,
                   user, now, evaluations, payment_requests, response>>

\* index (POST), last part: persist the evaluation, consume quota, commit
IndexPersist(r) ==
    /\ session[r].at = "evaluating"
    /\ LET obj == consume_eval(session[r].u, now)
       IN  /\ user' = Commit(user, session[r].loaded, obj)
           /\ evaluations' = AddEvaluation(evaluations, <<obj.plan, MonthKey(now)>>)
    /\ session' = [session EXCEPT ![r] = Ended(session[r], "result")]
    /\ UNCHANGED <<pc, inputVars, evalVars, reportVars, videoVars, market, callVars,
                   now, payment_requests, response>>

\* checkout("free")
CheckoutFree ==
    /\ user' = [user EXCEPT !.plan = "free"]
    /\ UNCHANGED <<pc, inputVars, evalVars, reportVars, videoVars, market, callVars,
                   now, session, evaluations, payment_requests, response>>

\* the UTC clock passes a month boundary
Tick ==
    /\ \E n \in 0..(MaxTicks - 1) : now = ClockAt(n)
    /\ now' = NextMonth(now)
    /\ UNCHANGED <<pc, inputVars, evalVars, reportVars, videoVars, market, callVars,
                   user, session, evaluations, payment_requests, response>>

WebIdle ==
    /\ pc = "web"
    /\ InputsIdle /\ EvalIdle /\ ReportIdle /\ VideoIdle
    /\ market = NoMarket
    /\ call = "" /\ earlier = NoCall

\* the user after n evaluations made one after the other this month on plan p
UserAfter(p, n) ==
    IF n = 0 THEN [NewUser EXCEPT !.plan = p]
    ELSE [plan |-> p, quota_used_total |-> n, quota_used_month |-> n,
          quota_month |-> MonthKey(StartOfClock)]
EvaluationsAfter(p, n) ==
    IF n = 0 THEN EmptyTable ELSE (<<p, MonthKey(StartOfClock)>> :> n)

StartCounts(p) ==
    IF p \in {"starter", "pro"} THEN {0, monthly_limit([plan |-> p]) - 1} ELSE {0}

\* a user of each plan who has not evaluated yet, or (starter, pro) who has
\* one evaluation of this month left; the user's clients send requests
InitQuota ==
    /\ WebIdle
    /\ \E p \in PLANS : \E n \in StartCounts(p) :
            /\ user = UserAfter(p, n)
            /\ evaluations = EvaluationsAfter(p, n)
    /\ now = StartOfClock
    /\ session = [r \in 1..MaxConcurrent |-> NoSession]
    /\ payment_requests = <<>>
    /\ response = NoResponse

NextQuota ==
    \/ \E r \in DOMAIN session : IndexCheck(r)
    \/ \E r \in DOMAIN session : IndexPersist(r)
    \/ CheckoutFree
    \/ Tick

SpecQuota == InitQuota /\ [][NextQuota]_vars

----------------------------------------------------------------------------
(* Bank-transfer payment requests *)

\* the <plan> segment of POST /checkout/<plan>, "free" apart
RawPlans == {"starter", " Pro ", "vip"}

\* (plan or "").strip().lower()
StripLower(raw) ==
    CASE raw = " Pro " -> "pro"
      [] OTHER -> raw

UsedCodes(rows) == {rows[i].reference_code : i \in DOMAIN rows}
\* _ref_code() draws at random; a code not in the table is named by the order
\* in which the codes were issued
FreshCode(rows) == Cardinality(UsedCodes(rows)) + 1

Pending(rows) == {i \in DOMAIN rows : rows[i].status = "pending"}

\* filter_by(status="pending").order_by(created_at.desc()).first(); 0 is None
LatestPending(rows) ==
    IF Pending(rows) = {} THEN 0
    ELSE CHOOSE i \in Pending(rows) : \A j \in Pending(rows) : j <= i

NewRequest(plan, code) ==
    [plan |-> plan, reference_code |-> code, status |-> "pending", decided_at |-> <<>>]

\* checkout(plan) for a plan other than "free": create_bank_payment_request.
\* response.pr is the request returned (its place in the table), 0 for None
CheckoutPaid(raw) ==
    /\ raw # "free"
    /\ LET plan == StripLower(raw)
           existing == LatestPending(payment_requests)
           used == UsedCodes(payment_requests)
       IN  IF plan \notin PaidPlans
           THEN /\ response' = [route |-> "checkout", plan |-> raw, pr |-> 0]
                /\ UNCHANGED payment_requests
           ELSE IF existing # 0 /\ payment_requests[existing].plan = plan
           THEN /\ response' = [route |-> "checkout", plan |-> raw, pr |-> existing]
                /\ UNCHANGED payment_requests
           ELSE \* up to 10 draws of _ref_code(): one is unused ...
                \/ /\ Len(payment_requests) < MaxPayments
                   /\ payment_requests' = Append(payment_requests,
                            NewRequest(plan, FreshCode(payment_requests)))
                   /\ response' = [route |-> "checkout", plan |-> raw,
                                   pr |-> Len(payment_requests) + 1]
                \* ... or all ten are taken
                \/ /\ used # {}
                   /\ response' = [route |-> "checkout", plan |-> raw, pr |-> 0]
                   /\ UNCHANGED payment_requests
    /\ UNCHANGED <<pc, inputVars, evalVars, reportVars, videoVars, market, callVars,
                   user, now, session, evaluations>>

\* approve_payment_request(pr): the rows after the commit
approve_payment_request(rows, i, u, t) ==
    [requests |-> [rows EXCEPT ![i].status = "approved", ![i].decided_at = MonthKey(t)],
     user |-> [u EXCEPT !.plan = rows[i].plan, !.quota_used_month = 0,
                        !.quota_month = <<>>]]

\* admin_approve_payment without the status test of app.py:146
AdminApproveUnchecked(i) ==
    /\ response' = [route |-> "approve", plan |-> "", pr |-> i]
    /\ IF i \notin DOMAIN payment_requests
       THEN UNCHANGED <<payment_requests, user>>
       ELSE LET after == approve_payment_request(payment_requests, i, user, now)
            IN  /\ payment_requests' = after.requests
                /\ user' = after.user
    /\ UNCHANGED <<pc, inputVars, evalVars, reportVars, videoVars, market, callVars,
                   now, session, evaluations>>

\* admin_approve_payment(pr_id); an unknown pr_id is a 404
AdminApprove(i) ==
    /\ response' = [route |-> "approve", plan |-> "", pr |-> i]
    /\ IF i \notin DOMAIN payment_requests \/ payment_requests[i].status # "pending"
       THEN UNCHANGED <<payment_requests, user>>
       ELSE LET after == approve_payment_request(payment_requests, i, user, now)
            IN  /\ payment_requests' = after.requests
                /\ user' = after.user
    /\ UNCHANGED <<pc, inputVars, evalVars, reportVars, videoVars, market, callVars,
                   now, session, evaluations>>

\* a request the operator rejected: the status is listed at models.py:110,
\* no route of the application sets it
RejectedRequest ==
    [plan |-> "starter", reference_code |-> 1, status |-> "rejected",
     decided_at |-> MonthKey(StartOfClock)]

\* a newly registered user with one client; the operator acts as admin
InitAccount ==
    /\ WebIdle
    /\ user = NewUser
    /\ now = StartOfClock
    /\ session = [r \in {1} |-> NoSession]
    /\ evaluations = EmptyTable
    /\ payment_requests \in {<<>>, <<RejectedRequest>>}
    /\ response = NoResponse

NextAccount ==
    \/ \E r \in DOMAIN session : IndexCheck(r)
    \/ \E r \in DOMAIN session : IndexPersist(r)
    \/ CheckoutFree
    \/ \E raw \in RawPlans : CheckoutPaid(raw)
    \/ \E i \in 1..(Len(payment_requests) + 1) : AdminApprove(i)

SpecAccount == InitAccount /\ [][NextAccount]_vars

----------------------------------------------------------------------------
(* Claims *)

TraitsComputed == pc \in {"ability", "rank", "comment", "conf", "done"}

\* C1: for every combination of index values and every distance, the traits
\* returned by _derive_traits (after the bucket nudges and the rounding) are
\* in [35,90], Risk in [10,80].
C1_TraitsInRange ==
    TraitsComputed =>
        /\ \A k \in {"Speed", "Power", "Stamina", "Durability", "Acceleration", "Stability"} :
               traits[k] \in 35..90
        /\ traits.Risk \in 10..80

\* A Stayer whose stamina is already at the cap before the +2 nudge, with the
\* risk clamp active as well.
C1_Witness ==
    /\ pc = "ability"
    /\ Bucket(distance_m) = "Stayer"
    /\ BaseStamina(indices, distance_m) = 90 * 30000
    /\ traits.Stamina = 90
    /\ traits.Risk = 80

AbilityComputed == pc \in {"rank", "comment", "conf", "done"}

\* C2: for every trait vector in the documented ranges and every distance,
\* Ability is in [1,99], alpha in [0.30,0.90] and turfiness in [0,1].
C2_AbilityInRange ==
    AbilityComputed =>
        /\ ability_pack.Ability \in 100..9900
        /\ ability_pack.alpha \in 300..900
        /\ ability_pack.turfiness \in 0..1000

\* A staying distance with Power well above Speed: the lower alpha clamp acts.
C2_Witness ==
    /\ pc = "rank"
    /\ traits.Speed < traits.Power
    /\ AlphaNoClamp(traits, distance_m) < 1500000
    /\ ability_pack.alpha = 300

MarketComputed == pc = "done" /\ call = "estimate_market"

\* C3 (as stated): for all inputs to estimate_market, zero and negative
\* numbers included, yen_high >= yen_low >= 0 and both bounds are integer
\* multiples of 10,000.
C3_MarketBounds ==
    MarketComputed =>
        /\ market.yen_high >= market.yen_low
        /\ market.yen_low >= 0
        /\ market.yen_low % 10000 = 0
        /\ market.yen_high % 10000 = 0

\* the market example of the specification: an unseen sire, override
\* 2,000,000, dam value 1,000,000, 2 blacktype, 1 nearby winner, a colt
IsMarketExample ==
    /\ payload.sire = "Unseen"
    /\ payload.sire \notin DOMAIN db
    /\ payload.sire \notin DOMAIN DEFAULTS
    /\ payload.sex = "colt"
    /\ market_inputs = [sire_fee_median |-> Num(2000), dam_value |-> Num(1000),
                        blacktype_count |-> Num(2), nearby_gsw |-> Num(1)]

\* C4 (as stated): in the market example base is 3,100,000 x 1.03 = 3,193,000
\* and the result is yen_low = 2,070,000, yen_high = 4,790,000.
C4_MarketExampleAsStated ==
    (MarketComputed /\ IsMarketExample) =>
        /\ MarketBase(market_inputs, payload.sire, db) * 250 = 3100000
        /\ AdjustedBase(payload, market_inputs, db) * 5 = 3193000 * 2
        /\ market.yen_low = 2070000
        /\ market.yen_high = 4790000

\* C4 (amended): in the market example base is 3,100,000 x 1.03 = 3,193,000
\* and the result is yen_low = 2,080,000 (3,193,000 x 0.65 = 2,075,450 rounds
\* up), yen_high = 4,790,000.
C4_MarketExample ==
    (MarketComputed /\ IsMarketExample) =>
        /\ MarketBase(market_inputs, payload.sire, db) * 250 = 3100000
        /\ AdjustedBase(payload, market_inputs, db) * 5 = 3193000 * 2
        /\ market.yen_low = 2080000
        /\ market.yen_high = 4790000

C4_Witness ==
    /\ MarketComputed
    /\ IsMarketExample
    /\ market.yen_low = 2080000
    /\ market.anchor = 2000000

NoPositiveMeasurement ==
    \A f \in {"body_weight", "height", "girth", "cannon"} : _as_float(payload[f], 0) <= 0

\* the end-to-end example of the specification: 1200 m, sire Speightstown,
\* no photo, no video, no measurements
IsEvalExample ==
    /\ payload.distance_m = Num(1200)
    /\ payload.sire = "Speightstown"
    /\ payload.damsire \notin power_hints
    /\ side_photo_rel = ""
    /\ video_rel = ""
    /\ NoPositiveMeasurement

\* C5 (as stated): the example yields pedigree_index 56, bucket Sprint,
\* shortness 1.0, and Speed and Acceleration include the +2 Sprint nudge.
C5_ExampleIntermediatesAsStated ==
    (TraitsComputed /\ IsEvalExample) =>
        /\ indices.pedigree = 5600
        /\ _distance_bucket(distance_m) = [bucket |-> "Sprint", shortness |-> 1200]
        /\ traits.Speed = RoundHalfEven(BaseSpeed(indices) + 2 * 10000, 10000)
        /\ traits.Acceleration =
              RoundHalfEven(BaseAcceleration(indices, BaseSpeed(indices)) + 2 * 1000000,
                            1000000)

\* C5 (amended): the example yields pedigree_index 56, bucket Sprint,
\* shortness (2.2 - 1.2) / 1.2 = 0.8333 (1000/1200), and Speed = 53 and
\* Acceleration = 52 include the +2 Sprint nudge (50.9 + 2 and 50.27 + 2).
C5_ExampleIntermediates ==
    (TraitsComputed /\ IsEvalExample) =>
        /\ indices.pedigree = 5600
        /\ _distance_bucket(distance_m) = [bucket |-> "Sprint", shortness |-> 1000]
        /\ BaseSpeed(indices) = 509000
        /\ BaseAcceleration(indices, BaseSpeed(indices)) = 50270000
        /\ traits.Speed = 53
        /\ traits.Acceleration = 52

C5_Witness ==
    /\ pc = "ability"
    /\ IsEvalExample
    /\ notes.pedigree = "ped_sire_speed"
    /\ traits.Speed = 53

\* C6 (as stated): in the example the ability of the locked formula gives
\* rank C or rank B.
C6_ExampleRankAsStated ==
    (pc = "done" /\ IsEvalExample) => rank \in {"B", "C"}

\* C6 (amended): in the example the ability of the locked formula is 48.82,
\* which gives rank D and one star.
C6_ExampleRank ==
    (pc = "done" /\ IsEvalExample) =>
        /\ ability_pack.Ability = 4882
        /\ rank = "D"
        /\ stars = StarGlyphs(1)

C6_Witness ==
    /\ pc = "done"
    /\ IsEvalExample
    /\ traits = [Speed |-> 53, Power |-> 51, Stamina |-> 53, Durability |-> 50,
                 Risk |-> 50, Acceleration |-> 52, Stability |-> 50]
    /\ rank = "D"

FilledStars == Cardinality({i \in 1..Len(stars) : stars[i] = "filled"})

\* C7: rank is A exactly when ability >= 82, B when 72 <= ability < 82, C when
\* 62 <= ability < 72, D otherwise; the stars are 5 glyphs, filled first, 5
\* filled when >= 85, 4 when >= 78, 3 when >= 70, 2 when >= 62, else 1.
C7_RankAndStars ==
    pc = "done" =>
        LET a == ability_pack.Ability IN
        /\ (rank = "A") <=> (a >= 8200)
        /\ (rank = "B") <=> (7200 <= a /\ a < 8200)
        /\ (rank = "C") <=> (6200 <= a /\ a < 7200)
        /\ (rank = "D") <=> (a < 6200)
        /\ Len(stars) = 5
        /\ \A i \in 1..5 : stars[i] \in {"filled", "empty"}
        /\ \A i \in 1..4 : stars[i] = "empty" => stars[i + 1] = "empty"
        /\ (FilledStars = 5) <=> (a >= 8500)
        /\ (FilledStars >= 4) <=> (a >= 7800)
        /\ (FilledStars >= 3) <=> (a >= 7000)
        /\ (FilledStars >= 2) <=> (a >= 6200)
        /\ FilledStars >= 1

\* The boundary value 82.00, ranked A with four filled stars.
C7_Witness ==
    /\ pc = "done"
    /\ ability_pack.Ability = 8200
    /\ rank = "A"
    /\ FilledStars = 4

\* the OpenCV strategy ran to its end (or could not open the file)
PrimaryDone == pc = "v_return" /\ path_exists /\ (cap_opened => pos = samples)

\* C8 (as stated): whenever the primary strategy fails to open the source or
\* produces fewer than 2 usable difference samples, the result is produced by
\* the fallback strategy, never from the primary strategy's samples.
C8_FallbackBelowTwoDiffs ==
    (PrimaryDone /\ (~cap_opened \/ diffs < 2)) => producer = "imageio"

\* C8 (amended): whenever the primary strategy fails to open the source or
\* produces no usable difference sample, the result is produced by the
\* fallback strategy, never from the primary strategy's samples; a result of
\* the primary strategy rests on at least one difference sample.
C8_FallbackWithoutDiffs ==
    /\ (PrimaryDone /\ (~cap_opened \/ diffs = 0)) => producer = "imageio"
    /\ (pc = "v_return" /\ producer = "cv") => (cap_opened /\ diffs >= 1)

\* The file opened, one frame was read, no difference could be taken, and the
\* fallback decoder produced the scores.
C8_Witness ==
    /\ PrimaryDone
    /\ cap_opened
    /\ prev
    /\ diffs = 0
    /\ producer = "imageio"
    /\ vf.note_ja = "video_imageio"

\* a failure path of the extraction, read from the program state where the
\* state shows it
FailedByState ==
    \/ ~path_exists
    \/ producer = "imageio" /\ ~iio
    \/ producer = "imageio" /\ iio /\ frames < 3
    \/ producer = "imageio" /\ iio /\ io_diffs = 0

\* C9: every failure path of the video extraction (file missing, decoder not
\* installed, decoder exception, fewer than 3 buffered frames, no difference
\* sample) ends in a result with motion 50, speed 50, accel 40, stability 90,
\* volatility 0 and a failure note; and no step of the extraction is left
\* without a successor before the result is returned.
C9_FailureIsNeutral ==
    /\ (pc = "v_return" /\ (failure # "" \/ FailedByState)) =>
          /\ failure \in {"file_missing", "iio_missing", "decoder_exception",
                          "few_frames", "no_diffs"}
          /\ vf = [motion_score |-> 50, speed_score |-> 50, accel_score |-> 40,
                   stability_score |-> 90, volatility |-> 0, note_ja |-> vf.note_ja]
          /\ vf.note_ja \in {"video_load_failed", "video_no_frames"}
    /\ pc \in {"v_start", "cv_loop", "io_start", "io_decode", "io_sample"} =>
          ENABLED VideoSteps

\* The file opened but gave no difference, and the fallback decoder raised
\* after buffering some frames.
C9_Witness ==
    /\ pc = "v_return"
    /\ cap_opened
    /\ diffs = 0
    /\ frames >= 3
    /\ failure = "decoder_exception"
    /\ vf.accel_score = 40
    /\ vf.stability_score = 90

IndicesComputed == pc \in {"derive", "ability", "rank", "comment", "conf", "done"}

\* C10: with no photo path, no video path and no positive measurement, the
\* body, photo, motion, speed, accel and stability indices are all 50 and the
\* body, photo and video notes are the "defaulted" notes.
C10_MissingDataNeutral ==
    (IndicesComputed /\ side_photo_rel = "" /\ video_rel = "" /\ NoPositiveMeasurement) =>
        /\ \A k \in {"body", "photo", "motion", "speed", "accel", "stability"} :
               indices[k] = 5000
        /\ notes.body = "body_defaulted"
        /\ notes.photo = "photo_defaulted"
        /\ notes.video = "video_defaulted"

\* A negative body weight and a zero height were entered: still neutral.
C10_Witness ==
    /\ pc = "done"
    /\ side_photo_rel = ""
    /\ video_rel = ""
    /\ NoPositiveMeasurement
    /\ payload.body_weight = Num(-3800)
    /\ payload.height = Num(0)
    /\ indices.body = 5000
    /\ notes.body = "body_defaulted"

\* number of measurement fields of the form holding a number > 0
MeasurementCount ==
    Cardinality({f \in {"body_weight", "height", "girth", "cannon"} :
                    payload[f].k = "num" /\ payload[f].v > 0})

\* C11: confidence = clamp(0.45 + 0.20 if a photo path was supplied + 0.20 if
\* a video path was supplied + min(0.15, 0.05 x measurement fields > 0), 0.30,
\* 0.95); it lies in [0.30,0.95] and depends on the paths and the measurement
\* count only, not on whether the photo or the video could be decoded.
C11_Confidence ==
    pc = "done" =>
        LET n   == MeasurementCount
            sum == 45 + (IF side_photo_rel # "" THEN 20 ELSE 0)
                      + (IF video_rel # "" THEN 20 ELSE 0)
                      + (IF n >= 3 THEN 15 ELSE 5 * n)
        IN  /\ conf = IF sum > 95 THEN 95 ELSE sum
            /\ conf \in 30..95

\* Photo and video supplied with all four measurements (0.45 + 0.40 + 0.15 is
\* clamped to 0.95) although the photo is missing and the video failed.
C11_Witness ==
    /\ pc = "done"
    /\ MeasurementCount = 4
    /\ side_photo_rel # "" /\ notes.photo = "photo_load_failed"
    /\ video_rel # "" /\ failure # ""
    /\ conf = 95

\* the call returned a dict (no exception left estimate_market)
MarketReturned == MarketComputed /\ market.error = ""

\* C12: the anchor is the sire_fee_median override whenever it is supplied
\* and parses as a number (0 included), else the sire's entry in the loaded
\* median table, else the sire's entry in DEFAULTS, else 1,500,000; a lower
\* layer is used only when every higher layer is absent.
C12_AnchorPrecedence ==
    MarketReturned =>
        LET o    == market_inputs.sire_fee_median
            sire == payload.sire
        IN  /\ o.k = "num" => market.anchor = 1000 * o.v
            /\ (o.k # "num" /\ sire \in DOMAIN db) => market.anchor = 1000 * db[sire]
            /\ (o.k # "num" /\ sire \notin DOMAIN db /\ sire = "AllTheBest_ja") =>
                  market.anchor = 3300000
            /\ (o.k # "num" /\ sire \notin DOMAIN db /\ sire = "Eskendereya_ja") =>
                  market.anchor = 1700000
            /\ (o.k # "num" /\ sire \notin DOMAIN db /\ sire \notin DOMAIN DEFAULTS) =>
                  market.anchor = 1500000

\* An override of 0 for a sire that has a table entry and a DEFAULTS entry.
C12_Witness ==
    /\ MarketReturned
    /\ market_inputs.sire_fee_median = Num(0)
    /\ payload.sire \in DOMAIN db
    /\ payload.sire \in DOMAIN DEFAULTS
    /\ market.anchor = 0

\* a text value that is not a number: text float() rejects, or "nan"
NotANumber(f) == f.k \in {"bad", "nan"}

\* the market form with every such field left out instead
WithoutMalformed(mi) == [f \in DOMAIN mi |-> IF NotANumber(mi[f]) THEN Absent ELSE mi[f]]

\* C15 (as stated, for the four market fields): a text value that does not
\* parse as a number gives exactly the same result as leaving the field
\* absent, and no error is raised.
C15_MalformedAsAbsent ==
    MarketComputed =>
        /\ market.error = ""
        /\ market = estimate_market(payload, WithoutMalformed(market_inputs), db)

\* values an ability-side payload field can be changed to
OtherValues(f) ==
    IF f \in {"sire", "damsire"}
    THEN {"", "Speightstown", "AllTheBest_ja", "Eskendereya_ja", "Unseen2"}
    ELSE {Absent, Malformed, Num(0), Num(1200), Num(4200)}

\* the payloads that differ from pl in exactly one of the given fields
OneFieldVariants(pl, fields) ==
    UNION {{[pl EXCEPT ![f] = v] : v \in OtherValues(f)} : f \in fields}

\* C13 (as stated): no payload field read by evaluate_horse is read by
\* estimate_market, and two estimate_market calls that differ only in
\* ability-side inputs (measurements, distance, pedigree names) return the
\* same estimate.
C13_DisjointInputsAsStated ==
    MarketComputed =>
        /\ \A p2 \in OneFieldVariants(payload, EvaluateReads) :
              estimate_market(p2, market_inputs, db) = market
        /\ EvaluateReads \cap MarketReads = {}

\* C13 (amended): sire is the one payload field read by both functions;
\* estimate_market reads sire and sex only, and two estimate_market calls
\* that differ only in measurements, distance or damsire return the same
\* estimate.
C13_DisjointInputsButSire ==
    MarketComputed =>
        /\ \A p2 \in OneFieldVariants(payload, EvaluateReads \ {"sire"}) :
              estimate_market(p2, market_inputs, db) = market
        /\ EvaluateReads \cap MarketReads = {"sire"}
        /\ \E s \in OtherValues("sire") :
              estimate_market([payload EXCEPT !.sire = s], NoMarketInputs, db)
                # estimate_market(payload, NoMarketInputs, db)

\* A sire priced from DEFAULTS: the estimate is the same with another damsire
\* and other measurements, and another one with another sire.
C13_Witness ==
    /\ MarketReturned
    /\ payload.sire = "AllTheBest_ja"
    /\ market_inputs.sire_fee_median = Absent
    /\ db = EmptyTable
    /\ market.anchor = 3300000
    /\ estimate_market([payload EXCEPT !.damsire = "Eskendereya_ja",
                                       !.body_weight = Num(4200)],
                       market_inputs, db) = market
    /\ estimate_market([payload EXCEPT !.sire = "Eskendereya_ja"],
                       market_inputs, db) # market

C16_IndicesInRange ==
    IndicesComputed =>
        /\ \A k \in {"body", "photo", "motion", "speed", "accel", "stability"} :
               indices[k] \in 3500..9000
        /\ indices.pedigree \in 4000..7500

\* A video that only the fallback strategy decoded, volatile enough for both
\* the accel and the stability clamp to act.
C16_Witness ==
    /\ pc = "derive"
    /\ producer = "imageio"
    /\ notes.video = "video_imageio"
    /\ vf.volatility = 100
    /\ indices.accel = 9000
    /\ indices.stability = 3500

\* the value of a measurement field when it holds a number > 0, else 0 (tenths)
Entered(f) == IF payload[f].k = "num" /\ payload[f].v > 0 THEN payload[f].v ELSE 0

\* the term of a field in twentieths of a point: the linear rescaling of an
\* entered value (slope in twentieths per tenth, around centre) limited to
\* [35,90]; 50 for a field that is missing, zero or negative
Term(f, centre, slope) ==
    IF Entered(f) = 0 THEN 1000
    ELSE LET t == slope * (Entered(f) - centre) + 1000
         IN  IF t < 700 THEN 700 ELSE IF t > 1800 THEN 1800 ELSE t

\* C17: the body index is the flat 50 with the 'no measurements' note exactly
\* when none of weight, height, girth, cannon is > 0; otherwise it is
\* 0.45 x weight term + 0.20 x height term + 0.20 x girth term + 0.15 x cannon
\* term rounded to 2 decimals, where a present field's term is its rescaling
\* ((w-380)/2, (h-150)x2, (g-170)x1.5, (c-19)x6, each + 50) clamped to
\* [35,90] and an absent field's term is 50.
C17_BodyIndex ==
    IndicesComputed =>
        LET sum == 45 * Term("body_weight", 3800, 1) + 20 * Term("height", 1500, 4)
                     + 20 * Term("girth", 1700, 3) + 15 * Term("cannon", 190, 12)
        IN  /\ MeasurementCount = 0 =>
                  indices.body = 5000 /\ notes.body = "body_defaulted"
            /\ MeasurementCount > 0 =>
                  /\ notes.body = "body_measured"
                  /\ 20 * indices.body - 10 <= sum
                  /\ sum <= 20 * indices.body + 10

\* Weight 420 kg entered, height 0 and girth -0.1 count as absent:
\* 0.45 x 70 + 0.55 x 50 = 59.00.
C17_Witness ==
    /\ pc = "derive"
    /\ payload.body_weight = Num(4200)
    /\ payload.height = Num(0)
    /\ payload.girth = Num(-1)
    /\ Entered("cannon") = 0
    /\ notes.body = "body_measured"
    /\ indices.body = 5900

\* C18: Risk and Stability are computed from the Durability of the same pass
\* before its rounding and before any nudge, Acceleration from the Speed
\* before its nudge; so for fixed indices Power, Risk and Stability are the
\* same for every distance, and the Stayer +1 on Durability and the Sprint +2
\* on Speed never change Risk, Stability or the Speed term in Acceleration.
C18_DerivationOrder ==
    (TraitsComputed /\ call = "_derive_traits") =>
        LET dur  == BaseDurability(indices)
            rsk  == BaseRisk(indices, dur)
            acc  == BaseAcceleration(indices, BaseSpeed(indices))
            acc2 == IF distance_m \in 1..1400 THEN _clamp(acc + 2000000, 35000000, 90000000)
                    ELSE acc
        IN  /\ \A d \in Distances :
                  /\ _derive_traits(indices, d).Power = traits.Power
                  /\ _derive_traits(indices, d).Risk = traits.Risk
                  /\ _derive_traits(indices, d).Stability = traits.Stability
            /\ traits.Risk = RoundHalfEven(rsk, 1000000)
            /\ traits.Stability = RoundHalfEven(BaseStability(indices, dur, rsk), 10000000)
            /\ traits.Acceleration = RoundHalfEven(acc2, 1000000)

\* A Stayer whose returned Durability carries the +1, with a Risk that would
\* have come out differently from the nudged Durability.
C18_Witness ==
    /\ pc = "ability"
    /\ call = "_derive_traits"
    /\ Bucket(distance_m) = "Stayer"
    /\ traits.Durability = RoundHalfEven(BaseDurability(indices) + 10000, 10000)
    /\ traits.Durability > RoundHalfEven(BaseDurability(indices), 10000)
    /\ traits.Risk # RoundHalfEven(BaseRisk(indices, BaseDurability(indices) + 10000),
                                   1000000)

CommentsComputed == pc = "conf" /\ call = "_comment_blocks"

\* the four conditions of the claim, on the trait vector
CondC == traits.Speed >= 78 /\ traits.Acceleration >= 75 /\ traits.Power < 72
CondP == traits.Power >= 78 /\ traits.Stability >= 70 /\ traits.Speed < 74
CondS == traits.Stamina >= 78 /\ traits.Durability >= 72
CondCaution == traits.Risk >= 65 \/ traits.Stability <= 55
CondConfidence == traits.Stability >= 75 /\ traits.Risk <= 40

\* C19: the pattern is exactly one of C, P, S, B, chosen by first match in
\* the order C, P, S, else B; a vector that satisfies both the C and the S
\* condition is classified C; at most one of the caution clause and the
\* confidence clause is appended.
C19_PatternFirstMatch ==
    CommentsComputed =>
        /\ comments.pattern \in {"C", "P", "S", "B"}
        /\ comments.pattern = "C" <=> CondC
        /\ comments.pattern = "P" <=> (~CondC /\ CondP)
        /\ comments.pattern = "S" <=> (~CondC /\ ~CondP /\ CondS)
        /\ comments.pattern = "B" <=> (~CondC /\ ~CondP /\ ~CondS)
        /\ Len(comments.clauses) <= 1
        /\ (comments.clauses = <<"caution">>) <=> CondCaution
        /\ (comments.clauses = <<"confidence">>) <=> (CondConfidence /\ ~CondCaution)

\* A vector that meets the C and the S condition, with the confidence clause.
C19_Witness ==
    /\ CommentsComputed
    /\ CondC /\ CondS
    /\ comments.pattern = "C"
    /\ comments.clauses = <<"confidence">>

\* the extraction returned scores computed from frames
ScoresProduced == pc = "v_return" /\ call = "video_motion_features" /\ failure = ""

\* C20 (as stated): in every extraction that produces scores, by either
\* strategy, the number of frames sampled is between 6 and 24 (12 when the
\* frame count is unknown), and the fallback buffer never holds more than 240
\* frames.
C20_SamplesAsStated ==
    /\ frames <= 240
    /\ ScoresProduced =>
          /\ producer = "cv" => (samples \in 6..24 /\ (frame_count = 0 => samples = 12))
          /\ producer = "imageio" => io_samples \in 6..24

\* C20 (amended): in every extraction that produces scores, the primary
\* strategy samples between 6 and 24 frame positions (12 when the frame count
\* is unknown) and the fallback strategy samples min(24, buffered frames)
\* frames, between 3 and 24; the fallback buffer never holds more than 240
\* frames.
C20_Samples ==
    /\ frames <= 240
    /\ ScoresProduced =>
          /\ producer = "cv" => (samples \in 6..24 /\ (frame_count = 0 => samples = 12))
          /\ producer = "imageio" =>
                /\ io_samples \in 3..24
                /\ io_samples = IF frames < 24 THEN frames ELSE 24

\* The fallback decoder buffered 3 frames and produced scores from them.
C20_Witness ==
    /\ ScoresProduced
    /\ producer = "imageio"
    /\ frames = 3
    /\ io_samples = 3
    /\ io_diffs = 2
    /\ vf.note_ja = "video_imageio"

----------------------------------------------------------------------------
(* Quota *)

Limit(p) == monthly_limit([plan |-> p])
EvaluationsOf(p) == {k \in DOMAIN evaluations : k[1] = p}

\* C21: whatever the interleaving of the user's evaluation requests, the
\* evaluations completed stay within the plan limit: at most 1 in total on
\* the free plan, at most 10 per calendar month on starter and 30 on pro
C21_QuotaRespected ==
    /\ SumOver(evaluations, EvaluationsOf("free")) <= 1
    /\ \A p \in {"starter", "pro"} : \A k \in EvaluationsOf(p) :
            evaluations[k] <= Limit(p)

----------------------------------------------------------------------------
(* Payment requests *)

PendingFor(p) == {i \in Pending(payment_requests) : payment_requests[i].plan = p}

\* C22: a pending request for the requested plan is reused, so the user never
\* has two pending requests for the same plan; a checkout of an unknown plan
\* name returns None
C22_PendingReused ==
    /\ \A p \in PaidPlans : Cardinality(PendingFor(p)) <= 1
    /\ (response.route = "checkout" /\ StripLower(response.plan) \notin PaidPlans) =>
            response.pr = 0

\* request i goes from pending to approved in this step
Approves(i) ==
    /\ payment_requests[i].status = "pending"
    /\ payment_requests'[i].status = "approved"

====
